---- MODULE Spec2Model ----
(***************************************************************************)
(* server-react: React with the mount layer's singletons moved into a      *)
(* per-session ReactServerContext.                                         *)
(*                                                                         *)
(* The model covers ReactServerContext (the context's fields),             *)
(* ReactInServerContext (render / unmountComponentAtNode / performUpdates  *)
(* bound to one context), the two batching strategies                      *)
(* (ReactServerBatchingStrategy, ReactServerTestingBatchingStrategy) and   *)
(* ReactMount (identifier cache, container registry, render, unmount,      *)
(* identifier-guided search, markup reuse).  The production build is       *)
(* modelled (__DEV__ blocks are not).                                      *)
(*                                                                         *)
(* Sequential JavaScript with mutation and exceptions is written in        *)
(* world-passing style: an operator takes the world W (the mutable state)  *)
(* and returns a result [w, val, err]; err = NoErr means normal return.    *)
(***************************************************************************)
EXTENDS Integers, Sequences, FiniteSets, TLC

(***************************************************************************)
(* Bounds of the model.                                                    *)
(***************************************************************************)
NumContexts == 2      \* render contexts created by inServerContext
NumContainers == 2    \* element containers of the session document
MaxNodes == 4         \* content nodes the documents can hold
MaxInst == 3          \* component instances alive at once
MaxDepth == 2         \* nesting depth of callbacks in progress
MaxRootIndex == 2     \* root indices ReactRootIndex hands out
MaxProps == 1         \* element props are 0..MaxProps
MaxState == 1         \* component state is 0..MaxState
MaxQueue == 2         \* pending entries of one context's updateQueue
MaxCalls == 3         \* calls the user makes in one run

(***************************************************************************)
(* Program constants.                                                      *)
(***************************************************************************)
ELEMENT_NODE_TYPE == 1
DOC_NODE_TYPE == 9
SEPARATOR == "."

NoErr == "ok"
\* The model's own bound was hit (no free node, instance or root index):
\* never an outcome of the program, an action with this result is disabled.
Bound == "BOUND"

(***************************************************************************)
(* Node identities.  NullNode is JavaScript's null; DocNode is the session *)
(* document (nodeType 9) and HtmlNode its documentElement; GlobalDoc is    *)
(* the process-global `document`; then the element containers created by   *)
(* the session document, one element container created by the global      *)
(* document, and the content nodes that markup insertion creates.          *)
(***************************************************************************)
NullNode == 0
GlobalDoc == 1
DocNode == 2
HtmlNode == 3
FirstContainer == 4
SessionContainers == FirstContainer .. (FirstContainer + NumContainers - 1)
GlobalContainer == FirstContainer + NumContainers
ElemContainers == SessionContainers \cup {GlobalContainer}
Containers == {DocNode} \cup ElemContainers
ContentNodes == (GlobalContainer + 1) .. (GlobalContainer + MaxNodes)
AllNodes == {DocNode, HtmlNode} \cup ElemContainers \cup ContentNodes

Contexts == 1 .. NumContexts
NoInst == 0
Insts == 1 .. MaxInst

(***************************************************************************)
(* Identifiers are strings, modelled as sequences of characters:           *)
(* ".0" is <<".", "0">>, ".0.0" is <<".", "0", ".", "0">>.  The empty      *)
(* string (and null, both falsy) is <<>>.                                  *)
(***************************************************************************)
NullID == << >>
Digits == <<"0", "1", "2", "3", "4", "5", "6", "7", "8", "9">>

RECURSIVE indexOfFrom(_, _, _)
\* String.prototype.indexOf(ch, from), 0-based; -1 when absent.
indexOfFrom(s, ch, from) ==
  IF from >= Len(s) THEN -1
  ELSE IF s[from + 1] = ch THEN from
  ELSE indexOfFrom(s, ch, from + 1)

\* s.substr(0, n)
substr0(s, n) == SubSeq(s, 1, n)

\* s.charAt(i), "" when out of range
charAt(s, i) == IF i >= 0 /\ i < Len(s) THEN s[i + 1] ELSE ""

\* ReactInstanceHandles.getReactRootIDString(index) = SEPARATOR + index.toString(36)
getReactRootIDString(index) == <<SEPARATOR, Digits[index + 1]>>

\* ReactInstanceHandles.getReactRootIDFromNodeID(id)
getReactRootIDFromNodeID(id) ==
  IF id # NullID /\ charAt(id, 0) = SEPARATOR /\ Len(id) > 1
  THEN LET index == indexOfFrom(id, SEPARATOR, 1)
       IN IF index > -1 THEN substr0(id, index) ELSE id
  ELSE NullID

\* ReactInstanceHandles: isBoundary(id, index)
isBoundary(id, index) == charAt(id, index) = SEPARATOR \/ index = Len(id)

\* ReactInstanceHandles.isAncestorIDOf(ancestorID, descendantID):
\* descendantID.indexOf(ancestorID) === 0 && isBoundary(descendantID, ancestorID.length)
isAncestorIDOf(ancestorID, descendantID) ==
  /\ Len(ancestorID) <= Len(descendantID)
  /\ substr0(descendantID, Len(ancestorID)) = ancestorID
  /\ isBoundary(descendantID, Len(ancestorID))

\* The identifier of the i-th child of the node with identifier id.
childID(id, i) == id \o <<SEPARATOR, Digits[i + 1]>>

(***************************************************************************)
(* Elements, markup and checksums.                                         *)
(***************************************************************************)
\* "div" is a primitive element rendering <div><span/></div>; "Sample" is
\* a composite component whose state shows in its root node.
Types == {"div", "Sample"}
Elements == [type : Types, props : 0 .. MaxProps]
NoElement == [type |-> "", props |-> 0]

\* Values that are not elements: an element string, a component class, and
\* an object with props that this React did not create.
NotElements ==
  {[type |-> t, props |-> 0] : t \in {"a string", "a constructor", "a foreign element"}}

\* Number of child nodes in the markup of an element of this type.
NKids(type) == IF type = "div" THEN 1 ELSE 0

NoText == [p |-> 0 - 1, s |-> 0 - 1]
NoSum == [id |-> NullID, tag |-> "", p |-> 0 - 1, s |-> 0 - 1, n |-> 0 - 1]

\* The markup ReactReconciler.mountComponent generates for an element with
\* the given state under root identifier rootID.
Markup(element, state, rootID) ==
  [id |-> rootID, tag |-> element.type, text |-> [p |-> element.props, s |-> state],
   kids |-> [i \in 1 .. NKids(element.type) |-> childID(rootID, i - 1)]]

\* ReactMarkupChecksum: adler32 of the markup string, a digest of it.
adler32(markup) ==
  [id |-> markup.id, tag |-> markup.tag, p |-> markup.text.p, s |-> markup.text.s,
   n |-> Len(markup.kids)]

(***************************************************************************)
(* DOM nodes.                                                              *)
(***************************************************************************)
BlankNode ==
  [nodeType |-> ELEMENT_NODE_TYPE, id |-> NullID, tag |-> "", text |-> NoText,
   sum |-> NoSum, kids |-> << >>, parent |-> NullNode]

Range(s) == {s[i] : i \in 1 .. Len(s)}
\* The values of a map.
Range2(m) == {m[k] : k \in DOMAIN m}

RECURSIVE ancestorOrSelf(_, _, _, _)
\* Whether outer is inner or one of inner's ancestors (fuel bounds the walk).
ancestorOrSelf(dom, outer, inner, fuel) ==
  IF inner = NullNode THEN FALSE
  ELSE IF inner = outer THEN TRUE
  ELSE IF fuel = 0 THEN FALSE
  ELSE ancestorOrSelf(dom, outer, dom[inner].parent, fuel - 1)

\* containsNode(outerNode, innerNode)
containsNode(dom, outer, inner) ==
  IF outer = NullNode \/ inner = NullNode THEN FALSE
  ELSE ancestorOrSelf(dom, outer, inner, Cardinality(AllNodes))

firstChild(dom, n) == IF dom[n].kids = << >> THEN NullNode ELSE dom[n].kids[1]

nextSibling(dom, n) ==
  LET p == dom[n].parent IN
  IF p = NullNode THEN NullNode
  ELSE LET ks == dom[p].kids
           i == CHOOSE j \in 1 .. Len(ks) : ks[j] = n
       IN IF i < Len(ks) THEN ks[i + 1] ELSE NullNode

\* getReactRootElementInContainer(container)
getReactRootElementInContainer(dom, container) ==
  IF container = NullNode THEN NullNode
  ELSE IF dom[container].nodeType = DOC_NODE_TYPE THEN HtmlNode
  ELSE firstChild(dom, container)

(***************************************************************************)
(* JavaScript objects used as maps, and results of calls.                  *)
(***************************************************************************)
EmptyMap == [x \in {} |-> NullNode]
Has(m, k) == k \in DOMAIN m
Put(m, k, v) == [x \in DOMAIN m \cup {k} |-> IF x = k THEN v ELSE m[x]]
Del(m, k) == [x \in DOMAIN m \ {k} |-> m[x]]
\* m[k], undefined (NullNode / NoInst, both 0) when absent
Get(m, k) == IF k \in DOMAIN m THEN m[k] ELSE 0

Ret(w, v) == [w |-> w, val |-> v, err |-> NoErr]
Throw(w, e) == [w |-> w, val |-> 0, err |-> e]

\* LET x == v IN F(x), with v evaluated once and x bound to its value.
Let(v, F(_)) == CHOOSE r \in {F(x) : x \in {v}} : TRUE

(***************************************************************************)
(* ReactServerContext: the fields one context owns.                        *)
(***************************************************************************)
ReactServerContext(document) ==
  [document |-> document,
   updateQueue |-> << >>,
   dirtyComponents |-> << >>,
   instancesByReactRootID |-> EmptyMap,
   containersByReactRootID |-> EmptyMap,
   nodeCache |-> EmptyMap]

(***************************************************************************)
(* ReactMount: identity and node cache.                                    *)
(***************************************************************************)
\* internalGetID(node): '' for null and for nodes without getAttribute
internalGetID(W, node) ==
  IF node = NullNode THEN NullID
  ELSE IF W.dom[node].nodeType # ELEMENT_NODE_TYPE THEN NullID
  ELSE W.dom[node].id

\* ReactMount.findReactContainerForID(serverContext, id)
findReactContainerForID(W, c, id) ==
  Get(W.ctx[c].containersByReactRootID, getReactRootIDFromNodeID(id))

\* An isValid that answers false for a node whose identifier was changed.
isValidWithoutInvariant(W, c, node, id) ==
  IF node # NullNode /\ internalGetID(W, node) = id
  THEN LET container == findReactContainerForID(W, c, id)
       IN Ret(W, container # NullNode /\ containsNode(W.dom, container, node))
  ELSE Ret(W, FALSE)

\* isValid(serverContext, node, id); val is the boolean returned
isValid(W, c, node, id) ==
  IF node # NullNode
  THEN IF internalGetID(W, node) # id
       THEN Throw(W, "UnexpectedExternalMutation")
       ELSE LET container == findReactContainerForID(W, c, id)
            IN Ret(W, container # NullNode /\ containsNode(W.dom, container, node))
  ELSE Ret(W, FALSE)

\* A node cache that all contexts share, as the cache of a module would be.
cachePutShared(W, c, id, node) ==
  [W EXCEPT !.ctx = [b \in Contexts |-> [W.ctx[b] EXCEPT !.nodeCache = Put(@, id, node)]]]

\* writes serverContext.nodeCache[id] = node
cachePut(W, c, id, node) ==
  [W EXCEPT !.ctx[c].nodeCache = Put(@, id, node)]

\* A getID that caches the node whatever the cache holds.
getIDOverwrites(W, c, node) ==
  LET id == internalGetID(W, node) IN
  IF id # NullID THEN Ret(cachePut(W, c, id, node), id) ELSE Ret(W, id)

\* getID(serverContext, node); val is the identifier
getID(W, c, node) ==
  LET id == internalGetID(W, node) IN
  IF id # NullID
  THEN IF Has(W.ctx[c].nodeCache, id)
       THEN LET cached == W.ctx[c].nodeCache[id] IN
            IF cached # node
            THEN Let(isValid(W, c, cached, id), LAMBDA v :
                   IF v.err # NoErr THEN Throw(W, v.err)
                   ELSE IF v.val THEN Throw(W, "IdentifierCollision")
                   ELSE Ret(cachePut(W, c, id, node), id))
            ELSE Ret(W, id)
       ELSE Ret(cachePut(W, c, id, node), id)
  ELSE Ret(W, id)

\* getReactRootID(serverContext, container)
getReactRootID(W, c, container) ==
  LET rootElement == getReactRootElementInContainer(W.dom, container) IN
  IF rootElement = NullNode THEN Ret(W, NullID) ELSE getID(W, c, rootElement)

\* A setID that leaves the entry of the node's previous identifier.
setIDKeepsOld(W, c, node, id) ==
  cachePut([W EXCEPT !.dom[node].id = id], c, id, node)

\* A setID that caches the node without writing the attribute.
setIDCacheOnly(W, c, node, id) ==
  LET oldID == internalGetID(W, node) IN
  cachePut([W EXCEPT !.ctx[c].nodeCache = IF oldID # id THEN Del(@, oldID) ELSE @],
           c, id, node)

\* setID(serverContext, node, id)
setID(W, c, node, id) ==
  LET oldID == internalGetID(W, node) IN
  cachePut([W EXCEPT !.ctx[c].nodeCache = IF oldID # id THEN Del(@, oldID) ELSE @,
                     !.dom[node].id = id],
           c, id, node)

\* purgeID(serverContext, id)
purgeID(W, c, id) == [W EXCEPT !.ctx[c].nodeCache = Del(@, id)]

\* ReactInstanceHandles: isValidID(id)
isValidID(id) ==
  id = NullID \/ (charAt(id, 0) = SEPARATOR /\ charAt(id, Len(id) - 1) # SEPARATOR)

RECURSIVE nextBoundary(_, _)
\* the first index i >= from with isBoundary(id, i)
nextBoundary(id, from) ==
  IF from >= Len(id) \/ isBoundary(id, from) THEN from ELSE nextBoundary(id, from + 1)

\* ReactInstanceHandles: getNextDescendantID(ancestorID, destinationID)
getNextDescendantID(ancestorID, destinationID) ==
  IF ancestorID = destinationID THEN ancestorID
  ELSE substr0(destinationID, nextBoundary(destinationID, Len(ancestorID) + 1))

RECURSIVE traverseDeepest(_, _, _, _, _)
\* The loop of traverseAncestors applied to findDeepestCachedAncestorImpl:
\* visits ancestorID, then the next identifier towards targetID, until the
\* callback returns false or targetID was visited.  val is deepestNodeSoFar.
traverseDeepest(W, c, ancestorID, targetID, deepest) ==
  LET ancestor == Get(W.ctx[c].nodeCache, ancestorID) IN
  IF ancestor = NullNode THEN Ret(W, deepest)
  ELSE Let(isValid(W, c, ancestor, ancestorID), LAMBDA v :
         IF v.err # NoErr THEN [w |-> W, val |-> deepest, err |-> v.err]
         ELSE IF ~v.val THEN Ret(W, deepest)
         ELSE IF ancestorID = targetID THEN Ret(W, ancestor)
         ELSE traverseDeepest(W, c, getNextDescendantID(ancestorID, targetID),
                              targetID, ancestor))

\* findDeepestCachedAncestor(serverContext, targetID).  deepestNodeSoFar is
\* the module-level variable (W.deep): reset on entry and on normal exit,
\* left at its last value when the traversal throws.
findDeepestCachedAncestor(W, c, targetID) ==
  Let([W EXCEPT !.deep = NullNode], LAMBDA W0 :
    IF targetID = NullID \/ ~isAncestorIDOf(NullID, targetID) \/ ~isValidID(targetID)
    THEN Throw(W0, "InvariantViolation")
    ELSE Let(traverseDeepest(W0, c, getNextDescendantID(NullID, targetID),
                             targetID, NullNode), LAMBDA t :
           IF t.err # NoErr THEN Throw([W0 EXCEPT !.deep = t.val], t.err)
           ELSE Ret(W0, t.val)))

RECURSIVE scanSiblingsSkipsUnidentified(_, _, _, _, _, _, _)
\* A sibling scan that does not descend into children without identifier.
scanSiblingsSkipsUnidentified(W, c, targetID, firstChildren, childIndex, child, targetChild) ==
  IF child = NullNode
  THEN [w |-> W, fc |-> firstChildren, ci |-> childIndex, tc |-> targetChild,
        err |-> NoErr]
  ELSE Let(getID(W, c, child), LAMBDA r :
       Let(nextSibling(W.dom, child), LAMBDA next :
         IF r.err # NoErr
         THEN [w |-> r.w, fc |-> firstChildren, ci |-> childIndex,
               tc |-> targetChild, err |-> r.err]
         ELSE IF r.val # NullID /\ targetID = r.val
         THEN scanSiblingsSkipsUnidentified(r.w, c, targetID, firstChildren,
                                            childIndex, next, child)
         ELSE IF r.val # NullID /\ isAncestorIDOf(r.val, targetID)
         THEN scanSiblingsSkipsUnidentified(r.w, c, targetID,
                                            <<firstChild(W.dom, child)>>, 0,
                                            next, targetChild)
         ELSE scanSiblingsSkipsUnidentified(r.w, c, targetID, firstChildren,
                                            childIndex, next, targetChild)))

RECURSIVE scanSiblings(_, _, _, _, _, _, _)
\* The inner `while (child)` loop of findComponentRoot.
scanSiblings(W, c, targetID, firstChildren, childIndex, child, targetChild) ==
  IF child = NullNode
  THEN [w |-> W, fc |-> firstChildren, ci |-> childIndex, tc |-> targetChild,
        err |-> NoErr]
  ELSE Let(getID(W, c, child), LAMBDA r :
       Let(nextSibling(W.dom, child), LAMBDA next :
         IF r.err # NoErr
         THEN [w |-> r.w, fc |-> firstChildren, ci |-> childIndex,
               tc |-> targetChild, err |-> r.err]
         ELSE IF r.val # NullID
         THEN IF targetID = r.val
              THEN scanSiblings(r.w, c, targetID, firstChildren, childIndex,
                                next, child)
              ELSE IF isAncestorIDOf(r.val, targetID)
              THEN scanSiblings(r.w, c, targetID, <<firstChild(W.dom, child)>>, 0,
                                next, targetChild)
              ELSE scanSiblings(r.w, c, targetID, firstChildren, childIndex,
                                next, targetChild)
         ELSE Let(Append(firstChildren, firstChild(W.dom, child)), LAMBDA fc :
                scanSiblings(r.w, c, targetID, fc, childIndex, next, targetChild))))

RECURSIVE scanLevels(_, _, _, _, _, _, _)
\* The outer `while (childIndex < firstChildren.length)` loop.
scanLevels(W, c, ancestorNode, targetID, firstChildren, childIndex, targetChild) ==
  IF childIndex < Len(firstChildren)
  THEN Let(scanSiblings(W, c, targetID, firstChildren, childIndex + 1,
                        firstChildren[childIndex + 1], targetChild), LAMBDA s :
         IF s.err # NoErr THEN Throw(s.w, s.err)
         ELSE IF s.tc # NullNode THEN Ret(s.w, s.tc)
         ELSE scanLevels(s.w, c, ancestorNode, targetID, s.fc, s.ci, s.tc))
  ELSE \* the arguments of invariant(false, ...) are evaluated first
       Let(getID(W, c, ancestorNode), LAMBDA g :
         IF g.err # NoErr THEN Throw(g.w, g.err)
         ELSE Throw(g.w, "ComponentNotFound"))

\* ReactMount.findComponentRoot(serverContext, ancestorNode, targetID).
\* serverContext.findComponentRootReusableArray is the local firstChildren:
\* it is overwritten on entry, so what a call leaves in it is never read.
findComponentRoot(W, c, ancestorNode, targetID) ==
  Let(findDeepestCachedAncestor(W, c, targetID), LAMBDA d :
    IF d.err # NoErr THEN Throw(d.w, d.err)
    ELSE LET deepestAncestor == IF d.val # NullNode THEN d.val ELSE ancestorNode IN
         IF deepestAncestor = NullNode THEN Throw(d.w, "TypeError")
         ELSE scanLevels(d.w, c, ancestorNode, targetID,
                         <<firstChild(d.w.dom, deepestAncestor)>>, 0, NullNode))

\* ReactMount.findReactNodeByID(serverContext, id)
findReactNodeByID(W, c, id) ==
  findComponentRoot(W, c, findReactContainerForID(W, c, id), id)

\* A getNode that returns what the cache holds without validating it.
getNodeTrustsCache(W, c, id) ==
  IF Has(W.ctx[c].nodeCache, id) THEN Ret(W, W.ctx[c].nodeCache[id])
  ELSE Let(findReactNodeByID(W, c, id), LAMBDA f :
         IF f.err # NoErr THEN f
         ELSE Ret(cachePut(f.w, c, id, f.val), f.val))

\* getNode(serverContext, id); val is the node
getNode(W, c, id) ==
  LET cached == Get(W.ctx[c].nodeCache, id) IN
  Let(IF Has(W.ctx[c].nodeCache, id) THEN isValid(W, c, cached, id) ELSE Ret(W, FALSE),
      LAMBDA v :
    IF v.err # NoErr THEN Throw(W, v.err)
    ELSE IF ~v.val
    THEN Let(findReactNodeByID(W, c, id), LAMBDA f :
           IF f.err # NoErr THEN f
           ELSE Ret(cachePut(f.w, c, id, f.val), f.val))
    ELSE Ret(W, cached))

(***************************************************************************)
(* Events of one step: what the last action did that the state does not    *)
(* show (a flush of a context, node creation on a document, an element     *)
(* replacement applied, a callback invoked).                               *)
(***************************************************************************)
Emit(W, e, a) == [W EXCEPT !.ev = Append(@, [ev |-> e, arg |-> a])]

(***************************************************************************)
(* Component instances (instantiateReactComponent) and the reconciler.     *)
(***************************************************************************)
NoPending == 0 - 1
BlankInst ==
  [used |-> FALSE, ctx |-> 0, element |-> NoElement, rootID |-> NullID,
   state |-> 0, pending |-> NoPending, mounted |-> FALSE]

\* ReactElement.isValidElement(nextElement)
isValidElement(element) == element.type \in Types

\* shouldUpdateReactComponent(prevElement, nextElement): same type (and key)
shouldUpdateReactComponent(prevElement, nextElement) ==
  prevElement.type = nextElement.type

\* instantiateReactComponent(serverContext, nextElement, null); val is the
\* instance, whose _serverContext is the back-reference to its context
instantiateReactComponent(W, c, nextElement) ==
  LET free == {i \in Insts : ~W.insts[i].used} IN
  IF free = {} THEN Throw(W, Bound)
  ELSE LET i == CHOOSE x \in free : \A y \in free : x <= y
       IN Ret([W EXCEPT !.insts[i] =
                 [used |-> TRUE, ctx |-> c, element |-> nextElement,
                  rootID |-> NullID, state |-> 0, pending |-> NoPending,
                  mounted |-> FALSE]], i)

\* ReactReconciler.mountComponent(instance, rootID, transaction, context):
\* val is the markup
mountComponent(W, i, rootID) ==
  LET W1 == [W EXCEPT !.insts[i].rootID = rootID, !.insts[i].mounted = TRUE]
  IN Ret(W1, Markup(W.insts[i].element, W.insts[i].state, rootID))

\* The identifiers of the nodes an instance rendered.
instanceIDs(inst) ==
  {inst.rootID} \cup {childID(inst.rootID, k - 1) : k \in 1 .. NKids(inst.element.type)}

\* ReactReconciler.unmountComponent(instance): the instance forgets its
\* pending work and each of its nodes' identifiers is purged from the cache
\* of the context the instance belongs to.
unmountComponent(W, i) ==
  LET inst == W.insts[i] IN
  [W EXCEPT !.insts[i].mounted = FALSE,
            !.insts[i].pending = NoPending,
            !.ctx[inst.ctx].nodeCache =
               [x \in DOMAIN @ \ instanceIDs(inst) |-> @[x]]]

\* ReactReconciler.receiveComponent / performUpdateIfNecessary: the
\* instance re-renders into its root node, found through ReactMount.getNode.
updateComponent(W, i) ==
  LET inst == W.insts[i] IN
  Let(getNode(W, inst.ctx, inst.rootID), LAMBDA g :
    IF g.err # NoErr THEN Throw(g.w, g.err)
    ELSE Ret([g.w EXCEPT !.dom[g.val].text =
                [p |-> inst.element.props, s |-> inst.state]], 0))

(***************************************************************************)
(* ReactUpdates / ReactUpdateQueue: the queues of one context.             *)
(***************************************************************************)
RECURSIVE drainUpdates(_, _)
\* Applies the queued element replacements and callbacks in FIFO order.
drainUpdates(W, q) ==
  IF q = << >> THEN Ret(W, 0)
  ELSE LET u == Head(q) IN
       IF ~W.insts[u.inst].mounted THEN drainUpdates(W, Tail(q))
       ELSE IF u.kind = "callback"
       THEN Let(Emit(W, "callback", u.inst), LAMBDA W1 : drainUpdates(W1, Tail(q)))
       ELSE Let([W EXCEPT !.insts[u.inst].element = u.element], LAMBDA W1 :
            Let(updateComponent(W1, u.inst), LAMBDA r :
              IF r.err # NoErr THEN Throw(r.w, r.err)
              ELSE drainUpdates(Emit(r.w, "update", u.inst), Tail(q))))

RECURSIVE drainDirty(_, _)
\* Reconciles the dirty instances in FIFO order.
drainDirty(W, q) ==
  IF q = << >> THEN Ret(W, 0)
  ELSE LET i == Head(q)
           inst == W.insts[i]
       IN IF ~inst.mounted \/ inst.pending = NoPending THEN drainDirty(W, Tail(q))
          ELSE Let([W EXCEPT !.insts[i].state = inst.pending,
                             !.insts[i].pending = NoPending], LAMBDA W1 :
               Let(updateComponent(W1, i), LAMBDA r :
                 IF r.err # NoErr THEN Throw(r.w, r.err)
                 ELSE drainDirty(r.w, Tail(q))))

\* ReactUpdates.flushBatchedUpdates(serverContext): drains the context's
\* updateQueue and dirtyComponents.
flushBatchedUpdates(W, c) ==
  Let([Emit(W, "flush", c) EXCEPT !.ctx[c].updateQueue = << >>,
                                  !.ctx[c].dirtyComponents = << >>], LAMBDA W1 :
  Let(drainUpdates(W1, W.ctx[c].updateQueue), LAMBDA r1 :
    IF r1.err # NoErr THEN Throw(r1.w, r1.err)
    ELSE drainDirty(r1.w, W.ctx[c].dirtyComponents)))

(***************************************************************************)
(* The batching strategies.  W.strategy is the strategy injected into      *)
(* ReactUpdates; W.flag is ReactServerTestingBatchingStrategy's            *)
(* isBatchingUpdates, a property of the strategy object (one per process). *)
(***************************************************************************)
\* batchingStrategy.isBatchingUpdates: ReactServerBatchingStrategy's is the
\* constant true
batchingFlag(W) == IF W.strategy = "server" THEN TRUE ELSE W.flag

\* A close that leaves the flag as it is.
keepBatchingFlag(W) == W

\* RESET_BATCHED_UPDATES.close
RESET_BATCHED_UPDATES(W) == [W EXCEPT !.flag = FALSE]

\* A close that flushes nothing.
flushNothing(W, c) == Ret(W, 0)

\* FLUSH_BATCHED_UPDATES.close: flushes the transaction's own context
FLUSH_BATCHED_UPDATES(W, c) == flushBatchedUpdates(W, c)

\* Transaction.closeAll over TRANSACTION_WRAPPERS = [FLUSH_BATCHED_UPDATES,
\* RESET_BATCHED_UPDATES]: a wrapper's close runs even when an earlier close
\* threw, and the first error is the one rethrown.
closeAll(W, c) ==
  Let(FLUSH_BATCHED_UPDATES(W, c), LAMBDA f :
    [w |-> RESET_BATCHED_UPDATES(f.w), val |-> 0, err |-> f.err])

\* An entry that opens the transaction without setting the flag.
enterWithoutFlag(W) == Ret(W, ~W.flag)

\* ReactServerTestingBatchingStrategy.batchedUpdates up to the call of the
\* callback: val says whether this call opened the transaction
testingBatchedUpdatesEnter(W) ==
  LET alreadyBatchingUpdates == W.flag
  IN Ret([W EXCEPT !.flag = TRUE], ~alreadyBatchingUpdates)

\* ReactServerBatchingStrategy.batchedUpdates up to the call of the
\* callback: it only calls the callback
serverBatchedUpdatesEnter(W) == Ret(W, FALSE)

\* ReactUpdates.batchedUpdates(callback, serverContext, ...) up to the call
\* of the callback
batchedUpdatesEnter(W) ==
  IF W.strategy = "server" THEN serverBatchedUpdatesEnter(W)
  ELSE testingBatchedUpdatesEnter(W)

\* batchedUpdates after the callback returned: transaction.perform closes
\* the wrappers when this call opened the transaction (tx)
batchedUpdatesExit(W, c, tx) == IF tx THEN closeAll(W, c) ELSE Ret(W, 0)

\* batchedUpdates after the callback threw: Transaction.perform closes the
\* wrappers, drops what they throw and lets the callback's error through
batchedUpdatesFail(W, c, tx) == IF tx THEN closeAll(W, c).w ELSE W

\* A performUpdates that returns without flushing.
performNothing(W, c) == Ret(W, 0)

\* ReactServerBatchingStrategy.performUpdates(serverContext)
performUpdates(W, c) == flushBatchedUpdates(W, c)

\* dirtyComponents.push(component)
pushDirty(W, c, i) ==
  IF i \in Range(W.ctx[c].dirtyComponents) THEN W
  ELSE [W EXCEPT !.ctx[c].dirtyComponents = Append(@, i)]

\* ReactUpdates.enqueueUpdate(serverContext, component): outside a batch it
\* runs itself inside batchingStrategy.batchedUpdates
enqueueUpdate(W, c, i) ==
  IF ~batchingFlag(W)
  THEN Let(batchedUpdatesEnter(W), LAMBDA b :
       Let(pushDirty(b.w, c, i), LAMBDA W1 : batchedUpdatesExit(W1, c, b.val)))
  ELSE Ret(pushDirty(W, c, i), 0)

\* ReactUpdateQueue.enqueueElementInternal(serverContext, instance, element)
enqueueElementInternal(W, c, i, nextElement) ==
  IF Len(W.ctx[c].updateQueue) >= MaxQueue THEN Throw(W, Bound)
  ELSE Let([W EXCEPT !.ctx[c].updateQueue =
              Append(@, [kind |-> "element", inst |-> i, element |-> nextElement])],
           LAMBDA W1 : enqueueUpdate(W1, c, i))

\* ReactUpdateQueue.enqueueCallbackInternal(serverContext, instance, callback)
enqueueCallbackInternal(W, c, i) ==
  IF Len(W.ctx[c].updateQueue) >= MaxQueue THEN Throw(W, Bound)
  ELSE Let([W EXCEPT !.ctx[c].updateQueue =
              Append(@, [kind |-> "callback", inst |-> i, element |-> NoElement])],
           LAMBDA W1 : enqueueUpdate(W1, c, i))

\* ReactUpdateQueue.enqueueSetState(instance, partialState): the update is
\* queued in the context the instance belongs to
enqueueSetState(W, i, s) ==
  Let([W EXCEPT !.insts[i].pending = s], LAMBDA W1 :
    enqueueUpdate(W1, W.insts[i].ctx, i))

(***************************************************************************)
(* The document: removing and inserting content.                           *)
(***************************************************************************)
\* The document a container belongs to (its ownerDocument).
ownerDocument(container) ==
  IF container = GlobalContainer THEN GlobalDoc ELSE DocNode

Descendants(dom, n) == {m \in AllNodes : m # n /\ containsNode(dom, n, m)}

\* Nodes some cache (or deepestNodeSoFar) still refers to.
Referenced(W) ==
  {W.deep} \cup UNION {Range2(W.ctx[c].nodeCache) : c \in Contexts}

\* `while (container.lastChild) container.removeChild(container.lastChild)`.
\* A removed subtree is never read again except for the identifier
\* attributes of its nodes, so only those are kept.
removeChildren(W, n) ==
  Let(Descendants(W.dom, n), LAMBDA gone :
    [W EXCEPT !.dom = [m \in AllNodes |->
       IF m \in gone THEN [BlankNode EXCEPT !.id = W.dom[m].id]
       ELSE IF m = n THEN [W.dom[m] EXCEPT !.kids = << >>]
       ELSE W.dom[m]]])

RECURSIVE smallest(_, _)
\* The k smallest members of S, in order.
smallest(S, k) ==
  IF k = 0 THEN << >>
  ELSE Let(CHOOSE a \in S : \A b \in S : a <= b, LAMBDA x :
         <<x>> \o smallest(S \ {x}, k - 1))

\* The nodes parsed from markup and inserted below container: root is the
\* new root element, kidNodes its children.
insertMarkup(W, container, markup, root, kidNodes) ==
  [W EXCEPT !.dom = [m \in AllNodes |->
     IF m = container THEN [W.dom[m] EXCEPT !.kids = <<root>>]
     ELSE IF m = root
     THEN [nodeType |-> ELEMENT_NODE_TYPE, id |-> markup.id,
           tag |-> markup.tag, text |-> markup.text, sum |-> NoSum,
           kids |-> kidNodes, parent |-> container]
     ELSE IF \E i \in 1 .. Len(kidNodes) : kidNodes[i] = m
     THEN [nodeType |-> ELEMENT_NODE_TYPE,
           id |-> markup.kids[CHOOSE j \in 1 .. Len(kidNodes) : kidNodes[j] = m],
           tag |-> "span", text |-> NoText, sum |-> NoSum,
           kids |-> << >>, parent |-> root]
     ELSE W.dom[m]]]

\* setInnerHTML(container, markup): the container's content is replaced by
\* nodes parsed from the markup, created in the container's own document.
setInnerHTML(W, container, markup) ==
  Let(removeChildren(W, container), LAMBDA W1 :
  Let({n \in ContentNodes : W1.dom[n].parent = NullNode /\ n \notin Referenced(W1)},
      LAMBDA free :
    IF Cardinality(free) < 1 + Len(markup.kids) THEN Throw(W, Bound)
    ELSE Let(smallest(free, 1 + Len(markup.kids)), LAMBDA f :
         Let(insertMarkup(W1, container, markup, f[1], Tail(f)), LAMBDA W2 :
           Ret(Emit(W2, "create", ownerDocument(container)), 0)))))

(***************************************************************************)
(* ReactMount: the mount/update manager.                                   *)
(***************************************************************************)
validContainer(W, container) ==
  /\ container # NullNode
  /\ W.dom[container].nodeType \in {ELEMENT_NODE_TYPE, DOC_NODE_TYPE}

\* rootElement.setAttribute(CHECKSUM_ATTR_NAME, null) stores the string "null"
NullStringSum == [NoSum EXCEPT !.tag = "null"]

\* ReactMarkupChecksum.canReuseMarkup(markup, element)
canReuseMarkup(W, markup, element) == adler32(markup) = W.dom[element].sum

\* A mount that builds the nodes with the global document's createElement
\* before it inserts them.
mountImageWithGlobalDocument(W, markup, container, shouldReuseMarkup) ==
  Let(setInnerHTML(W, container, markup), LAMBDA r :
    [r EXCEPT !.w = Emit(@, "create", GlobalDoc)])

\* A mount that keeps whatever markup it was asked to reuse.
mountImageTrustsServer(W, markup, container, shouldReuseMarkup) ==
  IF ~validContainer(W, container) THEN Throw(W, "InvalidContainer")
  ELSE IF shouldReuseMarkup THEN Ret(W, 0)
  ELSE IF W.dom[container].nodeType = DOC_NODE_TYPE
  THEN Throw(W, "DocumentWithoutServerRendering")
  ELSE setInnerHTML(W, container, markup)

\* A mount that never looks at the markup the container holds.
mountImageAlwaysWrites(W, markup, container, shouldReuseMarkup) ==
  IF ~validContainer(W, container) THEN Throw(W, "InvalidContainer")
  ELSE IF W.dom[container].nodeType = DOC_NODE_TYPE
  THEN Throw(W, "DocumentWithoutServerRendering")
  ELSE setInnerHTML(W, container, markup)

\* ReactMount._mountImageIntoNode(markup, container, shouldReuseMarkup)
mountImageIntoNode(W, markup, container, shouldReuseMarkup) ==
  IF ~validContainer(W, container) THEN Throw(W, "InvalidContainer")
  ELSE Let(getReactRootElementInContainer(W.dom, container), LAMBDA rootElement :
       Let(shouldReuseMarkup /\ canReuseMarkup(W, markup, rootElement), LAMBDA reuse :
       \* the checksum attribute is removed, then set to what was read
       Let(IF shouldReuseMarkup /\ ~reuse
           THEN [W EXCEPT !.dom[rootElement].sum =
                   IF @ = NoSum THEN NullStringSum ELSE @]
           ELSE W, LAMBDA W1 :
         IF reuse THEN Ret(W, 0)
         ELSE IF shouldReuseMarkup /\ W.dom[container].nodeType = DOC_NODE_TYPE
         THEN Throw(W1, "DocumentRootMismatch")
         ELSE IF W.dom[container].nodeType = DOC_NODE_TYPE
         THEN Throw(W1, "DocumentWithoutServerRendering")
         ELSE setInnerHTML(W1, container, markup))))

\* mountComponentIntoNode, run by batchedMountComponentIntoNode inside a
\* ReactReconcileTransaction.  userThrows: the component's own code throws
\* while it is mounted.
mountComponentIntoNode(W, i, rootID, container, shouldReuseMarkup, userThrows) ==
  IF userThrows THEN Throw(W, "UserError")
  ELSE Let(mountComponent(W, i, rootID), LAMBDA m :
         mountImageIntoNode(m.w, m.val, container, shouldReuseMarkup))

\* ReactInstanceHandles.createReactRootID(): the root index generator hands
\* out `index`; an identifier already registered in the context is not fresh.
createReactRootID(W, c, index) ==
  LET id == getReactRootIDString(index) IN
  IF Has(W.ctx[c].containersByReactRootID, id) \/ Has(W.ctx[c].instancesByReactRootID, id)
  THEN Throw(W, Bound)
  ELSE Ret(W, id)

\* A registerContainer that mints a root id whatever the container carries.
registerContainerAlwaysMints(W, c, container, index) ==
  Let(getReactRootID(W, c, container), LAMBDA g :
    IF g.err # NoErr THEN g
    ELSE Let(createReactRootID(g.w, c, index), LAMBDA made :
           IF made.err # NoErr THEN made
           ELSE Ret([made.w EXCEPT !.ctx[c].containersByReactRootID =
                       Put(@, made.val, container)], made.val)))

\* ReactMount.registerContainer(serverContext, container); val is the root id
registerContainer(W, c, container, index) ==
  Let(getReactRootID(W, c, container), LAMBDA g :
    IF g.err # NoErr THEN g
    ELSE Let(IF g.val # NullID THEN getReactRootIDFromNodeID(g.val) ELSE g.val,
             LAMBDA found :
         Let(IF found = NullID THEN createReactRootID(g.w, c, index)
             ELSE Ret(g.w, found), LAMBDA made :
           IF made.err # NoErr THEN made
           ELSE Ret([made.w EXCEPT !.ctx[c].containersByReactRootID =
                       Put(@, made.val, container)], made.val))))

\* A registration that records the container but not the instance.
registerContainerOnly(W, c, nextComponent, container, index) ==
  IF ~validContainer(W, container) THEN Throw(W, "InvalidContainer")
  ELSE registerContainer(W, c, container, index)

\* A registration that records the instance without its container.
registerInstanceOnly(W, c, nextComponent, container, index) ==
  IF ~validContainer(W, container) THEN Throw(W, "InvalidContainer")
  ELSE Let(registerContainer(W, c, container, index), LAMBDA r :
         IF r.err # NoErr THEN r
         ELSE Ret([r.w EXCEPT !.ctx[c].instancesByReactRootID =
                                 Put(@, r.val, nextComponent),
                              !.ctx[c].containersByReactRootID = Del(@, r.val)],
                  r.val))

\* ReactMount._registerComponent(serverContext, nextComponent, container)
registerComponent(W, c, nextComponent, container, index) ==
  IF ~validContainer(W, container) THEN Throw(W, "InvalidContainer")
  ELSE Let(registerContainer(W, c, container, index), LAMBDA r :
         IF r.err # NoErr THEN r
         ELSE Ret([r.w EXCEPT !.ctx[c].instancesByReactRootID =
                     Put(@, r.val, nextComponent)], r.val))

\* The call is recorded as the event "renderNew" with its shouldReuseMarkup
\* argument (1 or 0).
\* ReactMount._renderNewRootComponent up to the point where the mounted
\* component's own code runs inside batchedUpdates; val.tx says whether
\* batchedUpdates opened a transaction.
renderNewRootComponent(W, c, nextElement, container, shouldReuseMarkup, index, userThrows) ==
  Let(instantiateReactComponent(Emit(W, "renderNew", IF shouldReuseMarkup THEN 1 ELSE 0),
                                c, nextElement), LAMBDA a :
    IF a.err # NoErr THEN a
    ELSE Let(registerComponent(a.w, c, a.val, container, index), LAMBDA reg :
      IF reg.err # NoErr THEN reg
      ELSE Let(batchedUpdatesEnter(reg.w), LAMBDA b :
           Let(mountComponentIntoNode(b.w, a.val, reg.val, container,
                                      shouldReuseMarkup, userThrows), LAMBDA m :
             IF m.err = Bound THEN m
             ELSE IF m.err # NoErr
             THEN Throw(batchedUpdatesFail(m.w, c, b.val), m.err)
             ELSE Ret(m.w, [path |-> "mount", inst |-> a.val, tx |-> b.val])))))

\* An update that enqueues the callback before the element replacement.
updateRootCallbackFirst(W, c, prevComponent, nextElement, callback) ==
  Let(IF callback THEN enqueueCallbackInternal(W, c, prevComponent) ELSE Ret(W, 0),
      LAMBDA k :
    IF k.err # NoErr THEN k
    ELSE Let(enqueueElementInternal(k.w, c, prevComponent, nextElement), LAMBDA e :
           IF e.err # NoErr THEN e
           ELSE Ret(e.w, [path |-> "update", inst |-> prevComponent, tx |-> FALSE])))

\* ReactMount._updateRootComponent(prevComponent, nextElement, container,
\* serverContext, callback)
updateRootComponent(W, c, prevComponent, nextElement, callback) ==
  Let(enqueueElementInternal(W, c, prevComponent, nextElement), LAMBDA e :
    IF e.err # NoErr THEN e
    ELSE Let(IF callback THEN enqueueCallbackInternal(e.w, c, prevComponent) ELSE e,
             LAMBDA k :
           IF k.err # NoErr THEN k
           ELSE Ret(k.w, [path |-> "update", inst |-> prevComponent, tx |-> FALSE])))

\* ReactMount.unmountComponentFromNode(instance, container)
unmountComponentFromNode(W, instance, container) ==
  Let(unmountComponent(W, instance), LAMBDA W1 :
    removeChildren(W1, IF W.dom[container].nodeType = DOC_NODE_TYPE THEN HtmlNode
                       ELSE container))

\* An unmountComponentAtNode that leaves the container registered.
unmountKeepingContainer(W, c, container) ==
  IF ~validContainer(W, container) THEN Throw(W, "InvalidContainer")
  ELSE Let(getReactRootID(W, c, container), LAMBDA g :
    IF g.err # NoErr THEN g
    ELSE LET component == Get(g.w.ctx[c].instancesByReactRootID, g.val) IN
         IF component = NoInst THEN Ret(g.w, FALSE)
         ELSE Let(unmountComponentFromNode(g.w, component, container), LAMBDA W1 :
                Ret([W1 EXCEPT
                       !.ctx[c].instancesByReactRootID = Del(@, g.val)], TRUE)))

\* ReactMount.unmountComponentAtNode(serverContext, container); val is the
\* boolean returned
unmountComponentAtNode(W, c, container) ==
  IF ~validContainer(W, container) THEN Throw(W, "InvalidContainer")
  ELSE Let(getReactRootID(W, c, container), LAMBDA g :
    IF g.err # NoErr THEN g
    ELSE LET component == Get(g.w.ctx[c].instancesByReactRootID, g.val) IN
         IF component = NoInst THEN Ret(g.w, FALSE)
         ELSE Let(unmountComponentFromNode(g.w, component, container), LAMBDA W1 :
                Ret([W1 EXCEPT
                       !.ctx[c].instancesByReactRootID = Del(@, g.val),
                       !.ctx[c].containersByReactRootID = Del(@, g.val)], TRUE)))

\* ReactMount.isRenderedByReact(serverContext, node); val is the boolean
isRenderedByReact(W, c, node) ==
  IF W.dom[node].nodeType # ELEMENT_NODE_TYPE THEN Ret(W, FALSE)
  ELSE Let(getID(W, c, node), LAMBDA g :
         IF g.err # NoErr THEN g
         ELSE Ret(g.w, g.val # NullID /\ charAt(g.val, 0) = SEPARATOR))

\* A mount that asks for markup reuse whenever the container holds React
\* markup, whether or not an instance was unmounted before.
renderNewReusesAfterUnmount(U, c, nextElement, container, hadPrev, index, userThrows) ==
  Let(getReactRootElementInContainer(U.dom, container), LAMBDA reactRootElement :
  Let(IF reactRootElement # NullNode THEN isRenderedByReact(U, c, reactRootElement)
      ELSE Ret(U, FALSE), LAMBDA h :
    IF h.err # NoErr THEN h
    ELSE renderNewRootComponent(h.w, c, nextElement, container,
                                h.val, index, userThrows)))

\* The part of ReactMount.render after prevComponent was looked up and an
\* incompatible prevComponent was unmounted (world U).
renderNew(U, c, nextElement, container, hadPrev, index, userThrows) ==
  Let(getReactRootElementInContainer(U.dom, container), LAMBDA reactRootElement :
  Let(IF reactRootElement # NullNode THEN isRenderedByReact(U, c, reactRootElement)
      ELSE Ret(U, FALSE), LAMBDA h :
    IF h.err # NoErr THEN h
    ELSE renderNewRootComponent(h.w, c, nextElement, container,
                                h.val /\ ~hadPrev, index, userThrows)))

\* A render that never looks for a previous component.
renderAlwaysNew(W, c, nextElement, container, callback, index, userThrows) ==
  IF ~isValidElement(nextElement) THEN Throw(W, "InvalidElement")
  ELSE renderNew(W, c, nextElement, container, FALSE, index, userThrows)

\* A render that mounts the new root before it unmounts the old one.
renderMountsBeforeUnmount(W, c, nextElement, container, callback, index, userThrows) ==
  IF ~isValidElement(nextElement) THEN Throw(W, "InvalidElement")
  ELSE Let(getReactRootID(W, c, container), LAMBDA g :
    IF g.err # NoErr THEN g
    ELSE Let(Get(g.w.ctx[c].instancesByReactRootID, g.val), LAMBDA prevComponent :
      IF prevComponent = NoInst
      THEN renderNew(g.w, c, nextElement, container, FALSE, index, userThrows)
      ELSE IF shouldUpdateReactComponent(g.w.insts[prevComponent].element, nextElement)
      THEN updateRootComponent(g.w, c, prevComponent, nextElement, callback)
      ELSE Let(renderNew(g.w, c, nextElement, container, TRUE, index, userThrows),
               LAMBDA n :
             IF n.err # NoErr THEN n
             ELSE Let(unmountComponentAtNode(n.w, c, container), LAMBDA u :
                    IF u.err # NoErr THEN u ELSE Ret(u.w, n.val)))))

\* A render that looks for the mounted root before it validates the element.
renderValidatesLate(W, c, nextElement, container, callback, index, userThrows) ==
  Let(getReactRootID(W, c, container), LAMBDA g :
    IF g.err # NoErr THEN g
    ELSE IF ~isValidElement(nextElement) THEN Throw(g.w, "InvalidElement")
    ELSE Let(Get(g.w.ctx[c].instancesByReactRootID, g.val), LAMBDA prevComponent :
      IF prevComponent = NoInst
      THEN renderNew(g.w, c, nextElement, container, FALSE, index, userThrows)
      ELSE IF shouldUpdateReactComponent(g.w.insts[prevComponent].element, nextElement)
      THEN updateRootComponent(g.w, c, prevComponent, nextElement, callback)
      ELSE Let(unmountComponentAtNode(g.w, c, container), LAMBDA u :
             IF u.err # NoErr THEN u
             ELSE renderNew(u.w, c, nextElement, container, TRUE, index,
                            userThrows))))

\* ReactMount.render(nextElement, container, serverContext, callback) up to
\* its return (update path: val.path = "update") or up to the point where
\* the newly mounted component's own code runs (val.path = "mount").
render(W, c, nextElement, container, callback, index, userThrows) ==
  IF ~isValidElement(nextElement) THEN Throw(W, "InvalidElement")
  ELSE Let(getReactRootID(W, c, container), LAMBDA g :
    IF g.err # NoErr THEN g
    ELSE Let(Get(g.w.ctx[c].instancesByReactRootID, g.val), LAMBDA prevComponent :
      IF prevComponent = NoInst
      THEN renderNew(g.w, c, nextElement, container, FALSE, index, userThrows)
      ELSE IF shouldUpdateReactComponent(g.w.insts[prevComponent].element, nextElement)
      THEN updateRootComponent(g.w, c, prevComponent, nextElement, callback)
      ELSE Let(unmountComponentAtNode(g.w, c, container), LAMBDA u :
             IF u.err # NoErr THEN u
             ELSE renderNew(u.w, c, nextElement, container, TRUE, index,
                            userThrows))))

(***************************************************************************)
(* State.                                                                  *)
(***************************************************************************)
VARIABLES
  strategy,            \* the batching strategy injected into ReactUpdates
  isBatchingUpdates,   \* ReactServerTestingBatchingStrategy.isBatchingUpdates
  deepestNodeSoFar,    \* ReactMount's module-level deepestNodeSoFar
  ctx,                 \* the ReactServerContext objects
  dom,                 \* the documents' nodes
  insts,               \* the component instances
  stack,               \* calls in progress whose callback is running
  calls,               \* number of calls made so far
  ev,                  \* events of the last step
  ret                  \* what the last step called or returned

vars == <<strategy, isBatchingUpdates, deepestNodeSoFar, ctx, dom, insts, stack,
          calls, ev, ret>>

\* The mutable state the operators work on.
World ==
  [strategy |-> strategy, flag |-> isBatchingUpdates, deep |-> deepestNodeSoFar,
   ctx |-> ctx, dom |-> dom, insts |-> insts, ev |-> << >>]

\* Instances something still refers to.
ReferencedInsts(W, st) ==
  UNION {Range2(W.ctx[c].instancesByReactRootID)
           \cup Range(W.ctx[c].dirtyComponents)
           \cup {W.ctx[c].updateQueue[j].inst : j \in 1 .. Len(W.ctx[c].updateQueue)}
         : c \in Contexts}
  \cup {st[j].inst : j \in 1 .. Len(st)}

\* Garbage collection: a node that is in no document and in no cache, and an
\* instance nothing refers to, can never be observed again.
Collect(W, st) ==
  Let(Referenced(W), LAMBDA nodes :
  Let(ReferencedInsts(W, st), LAMBDA live :
    [W EXCEPT
       !.dom = [n \in AllNodes |->
          IF n \in ContentNodes /\ W.dom[n].parent = NullNode /\ n \notin nodes
          THEN BlankNode ELSE W.dom[n]],
       !.insts = [i \in Insts |-> IF i \in live THEN W.insts[i] ELSE BlankInst]]))

\* The next state: world W, call stack st, and r in ret.
Commit(W, st, r) ==
  \E N \in {Collect(W, st)} :
  /\ strategy' = N.strategy
  /\ isBatchingUpdates' = N.flag
  /\ deepestNodeSoFar' = N.deep
  /\ ctx' = N.ctx
  /\ dom' = N.dom
  /\ insts' = N.insts
  /\ ev' = N.ev
  /\ stack' = st
  /\ ret' = r

\* A call in progress: render's mount while the mounted component's code
\* runs ("mount"), render's callback ("cb"), batchedUpdates' callback
\* ("batch").  tx: this call opened the batching transaction.
NoFrame ==
  [kind |-> "", ctx |-> 0, tx |-> FALSE, inst |-> NoInst, cb |-> FALSE,
   empty |-> FALSE]

NoRet ==
  [op |-> "none", c |-> 0, k |-> NullNode, e |-> NoElement, id |-> NullID,
   path |-> "", done |-> TRUE, val |-> 0, err |-> NoErr, empty |-> FALSE]

Top == stack[Len(stack)]
Pop == SubSeq(stack, 1, Len(stack) - 1)

\* The markup a server render of element e under root index 0 leaves in
\* the document's root element.
ServerMarkup(e) == Markup(e, 0, getReactRootIDString(0))

InitDom(docElement) ==
  [n \in AllNodes |->
     IF n = DocNode THEN [BlankNode EXCEPT !.nodeType = DOC_NODE_TYPE, !.kids = <<HtmlNode>>]
     ELSE IF n = HtmlNode
     THEN IF docElement = NoElement
          THEN [BlankNode EXCEPT !.tag = "html", !.parent = DocNode]
          ELSE [BlankNode EXCEPT !.tag = docElement.type, !.parent = DocNode,
                                 !.id = ServerMarkup(docElement).id,
                                 !.text = ServerMarkup(docElement).text,
                                 !.sum = adler32(ServerMarkup(docElement))]
     ELSE BlankNode]

\* React.inServerContext(document, callback) creates each context with the
\* session document; docElement is what the server rendered into it.
InitWith(strategies, docElements) ==
  /\ strategy \in strategies
  /\ isBatchingUpdates = FALSE
  /\ deepestNodeSoFar = NullNode
  /\ ctx = [c \in Contexts |-> ReactServerContext(DocNode)]
  /\ \E e \in docElements : dom = InitDom(e)
  /\ insts = [i \in Insts |-> BlankInst]
  /\ stack = << >>
  /\ calls = 0
  /\ ev = << >>
  /\ ret = NoRet

(***************************************************************************)
(* Actions.  An operation is called by the program's user from the top     *)
(* level or from a callback that is running (the top of the stack).        *)
(***************************************************************************)
IsEmpty(container) ==
  dom[IF dom[container].nodeType = DOC_NODE_TYPE THEN HtmlNode ELSE container].kids = << >>

Called == calls' = calls + 1
Returned == calls' = calls

\* react.render(element, container, callback) of the context c
Render(c, e, k, cb, index, userThrows) ==
  /\ calls < MaxCalls
  /\ Called
  /\ \E r \in {render(World, c, e, k, cb, index, userThrows)} :
     \E rr \in {[NoRet EXCEPT !.op = "render", !.c = c, !.k = k, !.e = e,
                              !.err = r.err, !.empty = IsEmpty(k)]} :
     /\ r.err # Bound
     /\ IF r.err # NoErr THEN Commit(r.w, stack, rr)
        ELSE IF r.val.path = "update"
        THEN Commit(r.w, stack, [rr EXCEPT !.path = "update", !.val = r.val.inst])
        ELSE /\ Len(stack) < MaxDepth
             /\ Commit(r.w,
                       Append(stack, [kind |-> "mount", ctx |-> c, tx |-> r.val.tx,
                                      inst |-> r.val.inst, cb |-> cb,
                                      empty |-> IsEmpty(k)]),
                       [rr EXCEPT !.path = "mount", !.done = FALSE,
                                  !.val = r.val.inst])

\* What render returns to its caller once the mount is over.
MountReturn(err, done) ==
  [NoRet EXCEPT !.op = "render", !.c = Top.ctx,
                !.k = Get(ctx[Top.ctx].containersByReactRootID, insts[Top.inst].rootID),
                !.e = insts[Top.inst].element, !.path = "mount", !.done = done,
                !.val = Top.inst, !.err = err, !.empty = Top.empty]

\* The mounted component's code returns: batchedUpdates exits, then render
\* calls the callback, or returns when there is none.
MountExit ==
  /\ stack # << >>
  /\ Top.kind = "mount"
  /\ Returned
  /\ \E x \in {batchedUpdatesExit(World, Top.ctx, Top.tx)} :
        IF x.err # NoErr THEN Commit(x.w, Pop, MountReturn(x.err, TRUE))
        ELSE IF Top.cb
        THEN Commit(Emit(x.w, "callback", Top.inst),
                    Append(Pop, [Top EXCEPT !.kind = "cb", !.tx = FALSE]),
                    MountReturn(NoErr, FALSE))
        ELSE Commit(x.w, Pop, MountReturn(NoErr, TRUE))

\* render's callback returns, and render returns the public instance.
CallbackReturn ==
  /\ stack # << >>
  /\ Top.kind = "cb"
  /\ Returned
  /\ Commit(World, Pop, MountReturn(NoErr, TRUE))

\* ReactUpdates.batchedUpdates(callback, serverContext) called by the user
BatchedUpdates(c) ==
  /\ calls < MaxCalls
  /\ Len(stack) < MaxDepth
  /\ Called
  /\ \E b \in {batchedUpdatesEnter(World)} :
        Commit(b.w,
               Append(stack, [NoFrame EXCEPT !.kind = "batch", !.ctx = c, !.tx = b.val]),
               [NoRet EXCEPT !.op = "batchedUpdates", !.c = c, !.done = FALSE])

\* the callback of a user's batchedUpdates returns
BatchExit ==
  /\ stack # << >>
  /\ Top.kind = "batch"
  /\ Returned
  /\ \E x \in {batchedUpdatesExit(World, Top.ctx, Top.tx)} :
        Commit(x.w, Pop,
               [NoRet EXCEPT !.op = "batchedUpdates", !.c = Top.ctx, !.err = x.err])

\* The callback that is running throws: the call it belongs to fails.
Fail ==
  /\ stack # << >>
  /\ Returned
  /\ \E W \in {IF Top.kind = "cb" THEN World
                ELSE batchedUpdatesFail(World, Top.ctx, Top.tx)} :
        Commit(W, Pop,
               [NoRet EXCEPT !.op = IF Top.kind = "batch" THEN "batchedUpdates"
                                    ELSE "render",
                             !.c = Top.ctx, !.val = Top.inst, !.err = "UserError"])

\* react.unmountComponentAtNode(container) of the context c
Unmount(c, k) ==
  /\ calls < MaxCalls
  /\ Called
  /\ \E r \in {unmountComponentAtNode(World, c, k)} :
        Commit(r.w, stack,
               [NoRet EXCEPT !.op = "unmount", !.c = c, !.k = k, !.err = r.err,
                             !.val = IF r.err = NoErr /\ r.val THEN 1 ELSE 0])

\* ReactMount.registerContainer(serverContext, container) called by the user
RegisterContainer(c, k, index) ==
  /\ calls < MaxCalls
  /\ Called
  /\ \E r \in {registerContainer(World, c, k, index)} :
        /\ r.err # Bound
        /\ Commit(r.w, stack,
                  [NoRet EXCEPT !.op = "registerContainer", !.c = c, !.k = k,
                                !.err = r.err,
                                !.id = IF r.err = NoErr THEN r.val ELSE NullID])

\* this.setState(...) on a mounted composite component
SetState(i, s) ==
  /\ calls < MaxCalls
  /\ insts[i].mounted
  /\ insts[i].element.type = "Sample"
  /\ Called
  /\ \E r \in {enqueueSetState(World, i, s)} :
        Commit(r.w, stack,
               [NoRet EXCEPT !.op = "setState", !.c = insts[i].ctx, !.val = i,
                             !.err = r.err])

\* react.performUpdates() of the context c
PerformUpdates(c) ==
  /\ calls < MaxCalls
  /\ Called
  /\ \E r \in {performUpdates(World, c)} :
        Commit(r.w, stack,
               [NoRet EXCEPT !.op = "performUpdates", !.c = c, !.err = r.err])

\* ReactMount.getID(serverContext, node)
GetID(c, n) ==
  /\ calls < MaxCalls
  /\ Called
  /\ \E r \in {getID(World, c, n)} :
        Commit(r.w, stack,
               [NoRet EXCEPT !.op = "getID", !.c = c, !.k = n, !.err = r.err,
                             !.id = IF r.err = NoErr THEN r.val ELSE NullID])

\* ReactMount.setID(serverContext, node, id)
SetID(c, n, id) ==
  /\ calls < MaxCalls
  /\ Called
  /\ Commit(setID(World, c, n, id), stack,
            [NoRet EXCEPT !.op = "setID", !.c = c, !.k = n, !.id = id])

\* ReactMount.getNode(serverContext, id)
GetNode(c, id) ==
  /\ calls < MaxCalls
  /\ Called
  /\ \E r \in {getNode(World, c, id)} :
        Commit(r.w, stack,
               [NoRet EXCEPT !.op = "getNode", !.c = c, !.id = id, !.err = r.err,
                             !.k = IF r.err = NoErr THEN r.val ELSE NullNode])

\* ReactMount.purgeID(serverContext, id)
PurgeID(c, id) ==
  /\ calls < MaxCalls
  /\ Called
  /\ Commit(purgeID(World, c, id), stack,
            [NoRet EXCEPT !.op = "purgeID", !.c = c, !.id = id])

(***************************************************************************)
(* Spec: two sessions.  Every context renders into its own container of    *)
(* the session document, under either batching strategy.                   *)
(***************************************************************************)
OwnContainer(c) == FirstContainer + c - 1

\* The element trees the sessions render.
SessionElements == {e \in Elements : e.props = 0}

Init == InitWith({"server", "testing"}, {NoElement})

Next ==
  \/ \E c \in Contexts, e \in SessionElements, cb \in BOOLEAN :
        Render(c, e, OwnContainer(c), cb, 0, FALSE)
  \/ MountExit
  \/ CallbackReturn
  \/ \E c \in Contexts : BatchedUpdates(c)
  \/ BatchExit
  \/ Fail
  \/ \E c \in Contexts : Unmount(c, OwnContainer(c))
  \/ \E i \in Insts, s \in 0 .. MaxState : SetState(i, s)
  \/ \E c \in Contexts : PerformUpdates(c)

Spec == Init /\ [][Next]_vars

(***************************************************************************)
(* SpecFrame: two sessions that also use the identifier cache directly.    *)
(***************************************************************************)
\* The identifiers a root with index 0 and its first child carry.
SomeIDs == {getReactRootIDString(0), childID(getReactRootIDString(0), 0)}

\* The nodes that the sessions' containers hold: root elements and children.
TreeNodes == UNION {Descendants(dom, k) : k \in SessionContainers}

NextFrame ==
  \/ \E c \in Contexts, e \in SessionElements \cup NotElements :
        Render(c, e, OwnContainer(c), FALSE, 0, FALSE)
  \/ MountExit
  \/ \E c \in Contexts : Unmount(c, OwnContainer(c))
  \/ \E i \in Insts, s \in 0 .. MaxState : SetState(i, s)
  \/ \E c \in Contexts : PerformUpdates(c)
  \/ \E c \in Contexts, n \in TreeNodes : GetID(c, n)
  \/ \E c \in Contexts, n \in TreeNodes, id \in SomeIDs : SetID(c, n, id)
  \/ \E c \in Contexts, id \in SomeIDs : GetNode(c, id)
  \/ \E c \in Contexts, id \in SomeIDs : PurgeID(c, id)
  \/ \E c \in Contexts, index \in 0 .. MaxRootIndex - 1 :
        \E k \in {NullNode, OwnContainer(c)} : RegisterContainer(c, k, index)

SpecFrame == Init /\ [][NextFrame]_vars

(***************************************************************************)
(* SpecDoc: one session that renders into the document itself, into a      *)
(* container of the session document and into a container that the         *)
(* process-global document created.  The document either was never         *)
(* rendered into or holds the server-rendered markup of a childless        *)
(* element.                                                                *)
(***************************************************************************)
DocContainers == {DocNode, FirstContainer, GlobalContainer}

InitDoc ==
  InitWith({"server", "testing"},
           {NoElement} \cup {e \in SessionElements : NKids(e.type) = 0})

NextDoc ==
  \/ \E e \in SessionElements, k \in DocContainers, index \in 0 .. MaxRootIndex - 1 :
        Render(1, e, k, FALSE, index, FALSE)
  \/ MountExit
  \/ BatchedUpdates(1)
  \/ BatchExit
  \/ Fail
  \/ \E k \in DocContainers : Unmount(1, k)
  \/ \E i \in Insts, s \in 0 .. MaxState : SetState(i, s)
  \/ \E id \in SomeIDs : GetNode(1, id)

SpecDoc == InitDoc /\ [][NextDoc]_vars

(***************************************************************************)
(* SpecSearch: the node search of one context over trees and caches that   *)
(* mounts, setID, purgeID and the browser's own wrapper nodes can leave    *)
(* behind: three nodes below the session's container, each with no         *)
(* identifier or one of SearchIDs, in one of SearchShapes; the cache holds *)
(* any of these nodes, or nothing, under each identifier.                  *)
(***************************************************************************)
SearchIDs == {getReactRootIDString(0), childID(getReactRootIDString(0), 0)}
SearchNodes == (GlobalContainer + 1) .. (GlobalContainer + 3)

\* The children of the container and of the three nodes: a chain, a root
\* with a later sibling, and a root with an earlier sibling.
SearchShapes ==
  LET a == GlobalContainer + 1
      b == GlobalContainer + 2
      c == GlobalContainer + 3
      k == FirstContainer
  IN {(k :> <<a>> @@ a :> <<b>> @@ b :> <<c>> @@ c :> << >>),
      (k :> <<a, b>> @@ a :> <<c>> @@ b :> << >> @@ c :> << >>),
      (k :> <<a, b>> @@ a :> << >> @@ b :> <<c>> @@ c :> << >>)}

SearchParent(shape, n) ==
  IF \E m \in DOMAIN shape : n \in Range(shape[m])
  THEN CHOOSE m \in DOMAIN shape : n \in Range(shape[m])
  ELSE NullNode

SearchDom(shape, ids) ==
  [n \in AllNodes |->
     IF n \in SearchNodes
     THEN [BlankNode EXCEPT !.id = ids[n], !.tag = "span", !.kids = shape[n],
                            !.parent = SearchParent(shape, n)]
     ELSE IF n = FirstContainer THEN [BlankNode EXCEPT !.kids = shape[n]]
     ELSE InitDom(NoElement)[n]]

\* A cache: for each of SearchIDs one of the nodes, or no entry.
SearchCaches ==
  UNION {[S -> SearchNodes] : S \in SUBSET SearchIDs}

InitSearch ==
  /\ strategy = "server"
  /\ isBatchingUpdates = FALSE
  /\ deepestNodeSoFar = NullNode
  /\ \E shape \in SearchShapes, ids \in [SearchNodes -> SearchIDs \cup {NullID}] :
        dom = SearchDom(shape, ids)
  /\ \E cache \in SearchCaches, registered \in BOOLEAN :
        ctx = [c \in Contexts |->
                 IF c = 1
                 THEN [ReactServerContext(DocNode) EXCEPT
                         !.nodeCache = cache,
                         !.containersByReactRootID =
                            IF registered
                            THEN Put(EmptyMap, getReactRootIDString(0), FirstContainer)
                            ELSE EmptyMap]
                 ELSE ReactServerContext(DocNode)]
  /\ insts = [i \in Insts |-> BlankInst]
  /\ stack = << >>
  /\ calls = 0
  /\ ev = << >>
  /\ ret = NoRet

\* ReactMount.findComponentRoot(serverContext, ancestorNode, targetID)
FindComponentRoot(c, ancestorNode, targetID) ==
  /\ calls < MaxCalls
  /\ Called
  /\ \E r \in {findComponentRoot(World, c, ancestorNode, targetID)} :
        Commit(r.w, stack,
               [NoRet EXCEPT !.op = "findComponentRoot", !.c = c, !.id = targetID,
                             !.val = ancestorNode, !.err = r.err,
                             !.k = IF r.err = NoErr THEN r.val ELSE NullNode])

\* findDeepestCachedAncestor(serverContext, targetID)
FindDeepestCachedAncestor(c, targetID) ==
  /\ calls < MaxCalls
  /\ Called
  /\ \E r \in {findDeepestCachedAncestor(World, c, targetID)} :
        Commit(r.w, stack,
               [NoRet EXCEPT !.op = "findDeepestCachedAncestor", !.c = c,
                             !.id = targetID, !.err = r.err,
                             !.k = IF r.err = NoErr THEN r.val ELSE NullNode])

NextSearch ==
  \/ \E targetID \in SearchIDs : FindComponentRoot(1, FirstContainer, targetID)
  \/ \E targetID \in SearchIDs : FindDeepestCachedAncestor(1, targetID)

SpecSearch == InitSearch /\ [][NextSearch]_vars

(***************************************************************************)
(* SpecMarkup: one session that renders into a document and into an        *)
(* element container that already hold content: nothing, markup that a     *)
(* server render left with its checksum, the same markup without checksum  *)
(* attribute, or an element that React never rendered.                     *)
(***************************************************************************)
MarkupContainers == {DocNode, FirstContainer}

\* The node that holds the prior content of FirstContainer.
PriorNode == GlobalContainer + 1

\* The elements a server rendered: childless, with any props.
ServerElements == {e \in Elements : NKids(e.type) = 0}

\* The root element that markup of e leaves, with or without checksum.
ServerNode(e, withSum) ==
  [BlankNode EXCEPT !.tag = e.type, !.id = ServerMarkup(e).id,
                    !.text = ServerMarkup(e).text,
                    !.sum = IF withSum THEN adler32(ServerMarkup(e)) ELSE NoSum]

\* What a container's root element can be before the session starts:
\* rendered from one of elements, or an element React never rendered.
PriorRoots(elements) ==
  {ServerNode(e, withSum) : e \in elements, withSum \in BOOLEAN}
    \cup {[BlankNode EXCEPT !.tag = "p"]}

\* The node that holds the child of the documentElement.
HtmlKid == GlobalContainer + 2

InitMarkup ==
  /\ strategy \in {"server", "testing"}
  /\ isBatchingUpdates = FALSE
  /\ deepestNodeSoFar = NullNode
  /\ ctx = [c \in Contexts |-> ReactServerContext(DocNode)]
  /\ \E html \in PriorRoots(Elements), held \in BOOLEAN, prior \in PriorRoots(ServerElements) :
        dom = [n \in AllNodes |->
                 IF n = DocNode
                 THEN [BlankNode EXCEPT !.nodeType = DOC_NODE_TYPE, !.kids = <<HtmlNode>>]
                 ELSE IF n = HtmlNode
                 THEN [html EXCEPT !.parent = DocNode,
                                   !.tag = IF @ = "p" THEN "html" ELSE @,
                                   !.kids = IF NKids(html.tag) = 1 THEN <<HtmlKid>> ELSE << >>]
                 ELSE IF n = HtmlKid /\ NKids(html.tag) = 1
                 THEN [BlankNode EXCEPT !.id = childID(html.id, 0), !.tag = "span",
                                        !.parent = HtmlNode]
                 ELSE IF n = FirstContainer /\ held
                 THEN [BlankNode EXCEPT !.kids = <<PriorNode>>]
                 ELSE IF n = PriorNode /\ held
                 THEN [prior EXCEPT !.parent = FirstContainer]
                 ELSE BlankNode]
  /\ insts = [i \in Insts |-> BlankInst]
  /\ stack = << >>
  /\ calls = 0
  /\ ev = << >>
  /\ ret = NoRet

NextMarkup ==
  \/ \E e \in SessionElements, k \in MarkupContainers, userThrows \in BOOLEAN :
        \E index \in 0 .. MaxRootIndex - 1 : Render(1, e, k, FALSE, index, userThrows)
  \/ MountExit
  \/ \E k \in MarkupContainers : Unmount(1, k)

SpecMarkup == InitMarkup /\ [][NextMarkup]_vars

(***************************************************************************)
(* SpecLoose: renders that are called without a ReactServerContext.  Each  *)
(* call constructs its own context; the contexts not constructed yet are   *)
(* the slots of ctx that still hold their initial value.                   *)
(***************************************************************************)
\* The slot c of ctx holds no context that a render has constructed.
Unconstructed(c) == ctx[c] = ReactServerContext(DocNode)

\* A render without context that falls back to one context kept for all
\* such calls.
RenderWithDefaultContext(e, k, index) == Render(1, e, k, FALSE, index, FALSE)

\* ReactMount.render(element, container) without a context: the context is
\* new ReactServerContext(document) with the global document (canUseDOM is
\* forced to true), in the first slot not in use.
RenderWithoutContext(e, k, index) ==
  /\ calls < MaxCalls
  /\ Called
  /\ \E c \in Contexts :
     /\ Unconstructed(c)
     /\ \A b \in Contexts : b < c => ~Unconstructed(b)
     /\ \E r \in {render([World EXCEPT !.ctx[c] = ReactServerContext(GlobalDoc)],
                         c, e, k, FALSE, index, FALSE)} :
        \E rr \in {[NoRet EXCEPT !.op = "render", !.c = c, !.k = k, !.e = e,
                                 !.err = r.err, !.empty = IsEmpty(k)]} :
        /\ r.err # Bound
        /\ IF r.err # NoErr THEN Commit(r.w, stack, rr)
           ELSE IF r.val.path = "update"
           THEN Commit(r.w, stack, [rr EXCEPT !.path = "update", !.val = r.val.inst])
           ELSE /\ Len(stack) < MaxDepth
                /\ Commit(r.w,
                          Append(stack, [kind |-> "mount", ctx |-> c, tx |-> r.val.tx,
                                         inst |-> r.val.inst, cb |-> FALSE,
                                         empty |-> IsEmpty(k)]),
                          [rr EXCEPT !.path = "mount", !.done = FALSE,
                                     !.val = r.val.inst])

NextLoose ==
  \/ \E e \in Elements, k \in DocContainers, index \in 0 .. MaxRootIndex - 1 :
        RenderWithoutContext(e, k, index)
  \/ MountExit
  \/ \E i \in Insts, s \in 0 .. MaxState : SetState(i, s)

SpecLoose == InitDoc /\ [][NextLoose]_vars

(***************************************************************************)
(* Properties.                                                             *)
(***************************************************************************)
\* The fields of a context that belong to it alone.
OwnFields(x) ==
  <<x.nodeCache, x.instancesByReactRootID, x.containersByReactRootID,
    x.updateQueue, x.dirtyComponents>>

\* C1: an operation performed with one context (render, its mount's exit,
\* unmountComponentAtNode, getID, setID, getNode, purgeID, performUpdates,
\* setState on one of its instances) leaves nodeCache,
\* instancesByReactRootID, containersByReactRootID, updateQueue and
\* dirtyComponents of every other context unchanged.
C1_OtherContextsUnchanged ==
  [][\A b \in Contexts : b # ret'.c => OwnFields(ctx'[b]) = OwnFields(ctx[b])]_vars

\* Both contexts have mounted the same element under the same root
\* identifier, and context 1 has just cached that identifier's node.
C1_Witness ==
  /\ ret.op = "getID" /\ ret.c = 1 /\ ret.err = NoErr
  /\ Has(ctx[1].nodeCache, ret.id)
  /\ Has(ctx[1].instancesByReactRootID, ret.id)
  /\ Has(ctx[2].instancesByReactRootID, ret.id)
  /\ ~Has(ctx[2].nodeCache, ret.id)
  /\ insts[ctx[1].instancesByReactRootID[ret.id]].element =
       insts[ctx[2].instancesByReactRootID[ret.id]].element
  /\ ctx[1].containersByReactRootID[ret.id] # ctx[2].containersByReactRootID[ret.id]

\* C2: no operation writes mutable state held outside the contexts: the
\* batching flag of the strategy object and the scratch variable of the
\* identifier search, both shared by all contexts, never change.
C2_NoModuleLevelState ==
  [][isBatchingUpdates' = isBatchingUpdates /\ deepestNodeSoFar' = deepestNodeSoFar]_vars

TxOpen(st) == \E j \in 1 .. Len(st) : st[j].kind \in {"mount", "batch"}

\* How often the context c was flushed in the events es.
Flushes(es, c) ==
  Cardinality({i \in 1 .. Len(es) : es[i].ev = "flush" /\ es[i].arg = c})

\* C4: under the transaction-based strategy, with batchedUpdates calls
\* nested on one context, the exit (return or failure) of a call flushes
\* the context exactly once when the call is the outermost one and not at
\* all when it was entered inside another call; and no other step taken
\* while a call is in progress flushes, save an explicit performUpdates.
C4_FlushOnceAtOutermostExit ==
  [][strategy = "testing" /\ TxOpen(stack)
       /\ (\A j \in 1 .. Len(stack) : stack[j].ctx = Top.ctx)
     => IF calls' = calls /\ Top.kind \in {"mount", "batch"}
        THEN Flushes(ev', Top.ctx) = (IF TxOpen(Pop) THEN 0 ELSE 1)
        ELSE ret'.op # "performUpdates" => \A c \in Contexts : Flushes(ev', c) = 0]_vars

\* An inner batchedUpdates call has returned without a flush although an
\* update is pending; the outermost call is still in progress.
C4_Witness ==
  /\ strategy = "testing"
  /\ ret.op = "batchedUpdates" /\ ret.done /\ ret.err = NoErr
  /\ Len(stack) = 1 /\ stack[1].kind = "mount" /\ stack[1].tx /\ stack[1].ctx = ret.c
  /\ ctx[ret.c].dirtyComponents # << >>
  /\ ev = << >>

\* C5 as stated: under each strategy the flag is true exactly while an
\* outermost batching transaction is in progress.
C5_FlagIffTransaction == batchingFlag(World) <=> TxOpen(stack)

\* C5: under the transaction-based strategy the flag is true exactly
\* while an outermost batching transaction is in progress; the flag of the
\* server strategy is true in every state.
C5_FlagPerStrategy ==
  /\ strategy = "testing" => (isBatchingUpdates <=> TxOpen(stack))
  /\ strategy = "server" => batchingFlag(World)

\* A call nested in the outermost transaction is running, the flag set.
C5_Witness ==
  /\ strategy = "testing" /\ isBatchingUpdates
  /\ Len(stack) = 2 /\ stack[1].tx /\ ~stack[2].tx /\ stack[2].kind = "batch"

\* C6: under the transaction-based strategy, once a failure has reached
\* the caller and no batchedUpdates call remains in progress the flag is
\* false; the next batchedUpdates call then opens a transaction of its own,
\* and the exit of a call that opened one flushes its context exactly once.
C6_FlagResetOnFailure ==
  [][strategy = "testing" =>
       /\ (ret'.err # NoErr /\ ~TxOpen(stack')) => ~isBatchingUpdates'
       /\ (ret.err # NoErr /\ ~TxOpen(stack) /\ calls' = calls + 1
             /\ Len(stack') > Len(stack)) => stack'[Len(stack')].tx
       /\ (stack # << >> /\ calls' = calls /\ Top.kind \in {"mount", "batch"} /\ Top.tx)
            => Flushes(ev', Top.ctx) = 1]_vars

\* The mount wrapped by render's outermost batchedUpdates has failed with
\* DocumentRootMismatch, and the flag is false again.
C6_Witness ==
  /\ strategy = "testing"
  /\ ret.op = "render" /\ ret.err = "DocumentRootMismatch"
  /\ stack = << >>
  /\ ~isBatchingUpdates

\* C7: under the transaction-based strategy, a batchedUpdates call of a
\* context that has no other call of its own in progress is outermost for
\* that context: when it returns, the context's pending updates have been
\* flushed, whatever other context has a transaction open.
C7_OutermostPerContext ==
  [][(/\ strategy = "testing"
      /\ stack # << >> /\ calls' = calls /\ Top.kind \in {"mount", "batch"}
      /\ ret'.err = NoErr
      /\ \A j \in 1 .. Len(stack) - 1 :
            stack[j].kind \in {"mount", "batch"} => stack[j].ctx # Top.ctx)
     => /\ ctx'[Top.ctx].dirtyComponents = << >>
        /\ ctx'[Top.ctx].updateQueue = << >>]_vars

\* The text shown by the root node of the mounted instance i.
Shown(d, x, i) ==
  d[getReactRootElementInContainer(d,
      Get(x[i.ctx].containersByReactRootID, i.rootID))].text

\* C8: under the server strategy a step other than performUpdates on the
\* context of a mounted instance changes neither the instance's state nor
\* what its root node shows; performUpdates on the context applies every
\* pending state change of the context's mounted instances to the
\* document and empties the context's queues.
C8_AppliedByPerformUpdates ==
  [][strategy = "server" =>
       \A i \in Insts :
         (/\ insts[i].mounted /\ insts'[i].mounted
          /\ insts'[i].rootID = insts[i].rootID /\ insts'[i].ctx = insts[i].ctx
          /\ Get(ctx[insts[i].ctx].instancesByReactRootID, insts[i].rootID) = i
          /\ Get(ctx'[insts[i].ctx].instancesByReactRootID, insts[i].rootID) = i)
         => IF ret'.op = "performUpdates" /\ ret'.c = insts[i].ctx
            THEN ret'.err = NoErr =>
                   /\ insts'[i].pending = NoPending
                   /\ insts[i].pending # NoPending =>
                        /\ insts'[i].state = insts[i].pending
                        /\ Shown(dom', ctx', insts'[i]).s = insts[i].pending
                   /\ ctx'[ret'.c].dirtyComponents = << >>
                   /\ ctx'[ret'.c].updateQueue = << >>
            ELSE /\ insts'[i].state = insts[i].state
                 /\ Shown(dom', ctx', insts'[i]) = Shown(dom, ctx, insts[i])]_vars

\* performUpdates has applied a state change to the document.
C8_Witness ==
  /\ strategy = "server"
  /\ ret.op = "performUpdates" /\ ret.err = NoErr
  /\ \E i \in Insts :
       /\ insts[i].mounted /\ insts[i].ctx = ret.c
       /\ insts[i].state = 1 /\ insts[i].pending = NoPending
       /\ Shown(dom, ctx, insts[i]).s = 1

\* How often the callback of the render that mounted i ran in the events es.
Callbacks(es, i) ==
  Cardinality({j \in 1 .. Len(es) : es[j].ev = "callback" /\ es[j].arg = i})

C10_RerenderSameElement ==
  [][(/\ ret.op = "render" /\ ret.done /\ ret.path = "mount" /\ ret.err = NoErr
      /\ ret.empty
      /\ insts[ret.val].mounted
      /\ Get(ctx[ret.c].instancesByReactRootID, insts[ret.val].rootID) = ret.val
      /\ ctx[ret.c].updateQueue = << >> /\ ctx[ret.c].dirtyComponents = << >>
      /\ ret'.op = "render" /\ calls' = calls + 1
      /\ ret'.c = ret.c /\ ret'.k = ret.k /\ ret'.e = ret.e)
     => /\ ret'.err = NoErr
        /\ ret'.path = "update"
        /\ ret'.val = ret.val
        /\ ctx'[ret.c].instancesByReactRootID = ctx[ret.c].instancesByReactRootID
        /\ ctx'[ret.c].containersByReactRootID = ctx[ret.c].containersByReactRootID
        /\ \A n \in AllNodes : containsNode(dom, ret.k, n) => dom'[n] = dom[n]]_vars

\* The second render of the same element has returned the instance that
\* the first one mounted.
C10_Witness ==
  /\ ret.op = "render" /\ ret.path = "update" /\ ret.err = NoErr
  /\ insts[ret.val].mounted /\ insts[ret.val].element = ret.e
  /\ Get(ctx[ret.c].instancesByReactRootID, insts[ret.val].rootID) = ret.val
  /\ Get(ctx[ret.c].containersByReactRootID, insts[ret.val].rootID) = ret.k
  /\ calls = 2 /\ stack = << >>

\* C11: on render's update path the callback is enqueued directly after
\* the element replacement of the same instance, it runs only in a flush
\* that has applied that replacement before, and a render that flushes
\* nothing runs no callback.
C11_CallbackAfterUpdate ==
  /\ \A c \in Contexts : \A j \in 1 .. Len(ctx[c].updateQueue) :
        ctx[c].updateQueue[j].kind = "callback"
          => /\ j > 1
             /\ ctx[c].updateQueue[j - 1].kind = "element"
             /\ ctx[c].updateQueue[j - 1].inst = ctx[c].updateQueue[j].inst
  /\ \A j \in 1 .. Len(ev) :
        (ev[j].ev = "callback"
           /\ ~(ret.op = "render" /\ ret.path = "mount" /\ j = Len(ev)))
          => \E k \in 1 .. j - 1 : ev[k] = [ev |-> "update", arg |-> ev[j].arg]
  /\ (ret.op = "render" /\ ret.path = "update" /\ Flushes(ev, ret.c) = 0)
        => Callbacks(ev, ret.val) = 0

\* A render on the update path has applied its element replacement and
\* then run its callback.
C11_Witness ==
  /\ ret.op = "render" /\ ret.path = "update" /\ ret.err = NoErr
  /\ \E j \in 1 .. Len(ev) : \E k \in 1 .. j - 1 :
        /\ ev[k] = [ev |-> "update", arg |-> ret.val]
        /\ ev[j] = [ev |-> "callback", arg |-> ret.val]
  /\ insts[ret.val].element = ret.e

\* The identifier carried by the root element of the container k.
RootIDOf(d, k) ==
  IF getReactRootElementInContainer(d, k) = NullNode THEN NullID
  ELSE IF d[getReactRootElementInContainer(d, k)].nodeType # ELEMENT_NODE_TYPE THEN NullID
  ELSE d[getReactRootElementInContainer(d, k)].id

\* C12: unmountComponentAtNode on a container for which the context has no
\* instance registered returns false and changes neither the context nor
\* the document.
C12_UnmountNothingChangesNothing ==
  [][(/\ ret'.op = "unmount" /\ calls' = calls + 1
      /\ Get(ctx[ret'.c].instancesByReactRootID, RootIDOf(dom, ret'.k)) = NoInst)
     => /\ ret'.err = NoErr /\ ret'.val = 0
        /\ ctx' = ctx
        /\ dom' = dom]_vars

\* C12, second half: an unmount of the same container directly after a
\* successful one returns false and changes neither the context nor the
\* document.
C12_SecondUnmountChangesNothing ==
  [][(/\ ret.op = "unmount" /\ ret.err = NoErr /\ ret.val = 1
      /\ ret'.op = "unmount" /\ calls' = calls + 1
      /\ ret'.c = ret.c /\ ret'.k = ret.k)
     => /\ ret'.err = NoErr /\ ret'.val = 0
        /\ ctx' = ctx
        /\ dom' = dom]_vars

\* The instance that render finds mounted in container k of context c.
PrevComponent(c, k) == Get(ctx[c].instancesByReactRootID, RootIDOf(dom, k))

\* What the context c still holds for the root identifier r, the nodes of
\* the root having the identifiers ids: registry entries for r, or cache
\* entries for one of ids.
HoldsRoot(x, c, r, ids) ==
  \/ Has(x[c].instancesByReactRootID, r)
  \/ Has(x[c].containersByReactRootID, r)
  \/ \E id \in ids : Has(x[c].nodeCache, id)

Replaced(p) ==
  /\ insts[p].used /\ ~insts[p].mounted /\ insts[p].rootID # NullID
  /\ \A r \in DOMAIN ctx[insts[p].ctx].instancesByReactRootID :
        ctx[insts[p].ctx].instancesByReactRootID[r] # p

CarriedRootID(c, k) ==
  IF PrevComponent(c, k) # NoInst /\ dom[k].nodeType = ELEMENT_NODE_TYPE THEN NullID
  ELSE getReactRootIDFromNodeID(RootIDOf(dom, k))

\* The root identifiers registered in context c when registerContainer runs.
RegisteredRootIDs(c, k) ==
  (DOMAIN ctx[c].containersByReactRootID \cup DOMAIN ctx[c].instancesByReactRootID)
    \ (IF PrevComponent(c, k) # NoInst THEN {RootIDOf(dom, k)} ELSE {})

\* An instance that is mounted and registered under its root identifier.
Bound1(x, y, i) ==
  /\ y[i].used /\ y[i].mounted
  /\ Get(x[y[i].ctx].instancesByReactRootID, y[i].rootID) = i

C16_RegisterContainerRejectsInvalid ==
  [][(/\ ret'.op = "registerContainer" /\ calls' = calls + 1
      /\ ~validContainer([dom |-> dom], ret'.k))
     => /\ ret'.err = "InvalidContainer"
        /\ ctx'[ret'.c].containersByReactRootID = ctx[ret'.c].containersByReactRootID
        /\ ctx'[ret'.c].instancesByReactRootID = ctx[ret'.c].instancesByReactRootID]_vars

\* C17: render with a value that is not an element fails with InvalidElement,
\* whichever kind of value it is, and the call has changed nothing: no
\* context, node, instance, call in progress or batching flag, and nothing
\* was flushed, created or called back; InvalidElement is the failure of
\* such values only.
C17_InvalidElementChangesNothing ==
  [][(ret'.op = "render" /\ calls' = calls + 1)
     => /\ ~isValidElement(ret'.e)
           => /\ ret'.err = "InvalidElement"
              /\ ctx' = ctx /\ dom' = dom /\ insts' = insts /\ stack' = stack
              /\ isBatchingUpdates' = isBatchingUpdates
              /\ deepestNodeSoFar' = deepestNodeSoFar
              /\ ev' = << >>
              /\ ret'.done
        /\ ret'.err = "InvalidElement" => ~isValidElement(ret'.e)]_vars

\* A render of a foreign element has failed in a context whose container
\* holds a mounted root that the cache does not know.
C17_Witness ==
  /\ ret.op = "render" /\ ret.err = "InvalidElement"
  /\ ret.e.type = "a foreign element"
  /\ \E i \in Insts : Bound1(ctx, insts, i) /\ insts[i].ctx = ret.c
  /\ ctx[ret.c].nodeCache = EmptyMap

\* What isValid(context c, node, id) finds in the state (d, x): the node
\* carries id and lies in the container registered for id's root prefix.
Live(d, x, c, node, id) ==
  /\ node # NullNode
  /\ internalGetID([dom |-> d], node) = id
  /\ containsNode(d, Get(x[c].containersByReactRootID, getReactRootIDFromNodeID(id)), node)

\* The identifier attribute of the node of the getID call being made.
AskedID == internalGetID([dom |-> dom], ret'.k)

\* The node under which the cache of the calling context holds AskedID.
CachedNode == Get(ctx[ret'.c].nodeCache, AskedID)

\* C18: getID of a node whose identifier is cached under another node that
\* is still valid fails with IdentifierCollision and leaves the cache as it
\* was; if the cached node is not valid any more (it still carries the
\* identifier but lies in no registered container) the entry is replaced by
\* the node; an uncached identifier is cached; every call that does not fail
\* returns the node's identifier, and the cache then holds the node under
\* it.  A cached node whose identifier attribute was changed makes the call
\* fail with UnexpectedExternalMutation, the cache unchanged.
C18_GetIDCollision ==
  [][(ret'.op = "getID" /\ calls' = calls + 1)
     => /\ \A n \in AllNodes : dom[n].parent # NullNode => dom'[n] = dom[n]
        /\ \A id \in DOMAIN ctx'[ret'.c].nodeCache \cup DOMAIN ctx[ret'.c].nodeCache :
              id # AskedID => Get(ctx'[ret'.c].nodeCache, id) = Get(ctx[ret'.c].nodeCache, id)
        /\ IF AskedID = NullID
           THEN ret'.err = NoErr /\ ret'.id = NullID /\ ctx' = ctx
           ELSE IF ~Has(ctx[ret'.c].nodeCache, AskedID) \/ CachedNode = ret'.k
           THEN /\ ret'.err = NoErr /\ ret'.id = AskedID
                /\ Get(ctx'[ret'.c].nodeCache, AskedID) = ret'.k
           ELSE IF Live(dom, ctx, ret'.c, CachedNode, AskedID)
           THEN ret'.err = "IdentifierCollision" /\ ctx' = ctx
           ELSE IF internalGetID([dom |-> dom], CachedNode) # AskedID
           THEN ret'.err = "UnexpectedExternalMutation" /\ ctx' = ctx
           ELSE /\ ret'.err = NoErr /\ ret'.id = AskedID
                /\ Get(ctx'[ret'.c].nodeCache, AskedID) = ret'.k]_vars

\* A getID has failed on a collision: the identifier of its node is cached
\* under another node, which is valid.
C18_Witness ==
  /\ ret.op = "getID" /\ ret.err = "IdentifierCollision"
  /\ Has(ctx[ret.c].nodeCache, internalGetID([dom |-> dom], ret.k))
  /\ ctx[ret.c].nodeCache[internalGetID([dom |-> dom], ret.k)] # ret.k
  /\ Live(dom, ctx, ret.c, ctx[ret.c].nodeCache[internalGetID([dom |-> dom], ret.k)],
          internalGetID([dom |-> dom], ret.k))

\* C19: in every state, for every context, node and identifier,
\* isValid(context, node, id) fails with UnexpectedExternalMutation when the
\* node is not null and its identifier attribute differs from id; otherwise
\* it returns true exactly when the node carries id and lies in the
\* container registered for id's root prefix, and false when there is no
\* node or no such container holds it; it changes nothing.
C19_IsValid ==
  \A c \in Contexts, n \in AllNodes \cup {NullNode}, id \in SomeIDs :
     /\ isValid(World, c, n, id).w = World
     /\ IF n # NullNode /\ internalGetID(World, n) # id
        THEN isValid(World, c, n, id).err = "UnexpectedExternalMutation"
        ELSE /\ isValid(World, c, n, id).err = NoErr
             /\ isValid(World, c, n, id).val <=> Live(dom, ctx, c, n, id)

\* A getNode has answered from the cache, so isValid returned true for the
\* cached node, while isValid returns false for a node that carries the
\* same identifier outside the context's containers.
C19_Witness ==
  /\ ret.op = "getNode" /\ ret.err = NoErr
  /\ Live(dom, ctx, ret.c, ret.k, ret.id)
  /\ isValid(World, ret.c, ret.k, ret.id).val
  /\ \E n \in AllNodes : /\ n # ret.k
                         /\ internalGetID(World, n) = ret.id
                         /\ isValid(World, ret.c, n, ret.id).err = NoErr
                         /\ ~isValid(World, ret.c, n, ret.id).val

C21_SetID ==
  [][(ret'.op = "setID" /\ calls' = calls + 1)
     => /\ ret'.err = NoErr
        /\ internalGetID([dom |-> dom'], ret'.k) = ret'.id
        /\ Get(ctx'[ret'.c].nodeCache, ret'.id) = ret'.k
        /\ Has(ctx'[ret'.c].nodeCache, ret'.id)
        /\ internalGetID([dom |-> dom], ret'.k) # ret'.id
             => ~Has(ctx'[ret'.c].nodeCache, internalGetID([dom |-> dom], ret'.k))
        /\ \A x \in DOMAIN ctx[ret'.c].nodeCache \cup DOMAIN ctx'[ret'.c].nodeCache :
              x \notin {ret'.id, internalGetID([dom |-> dom], ret'.k)}
                => /\ Has(ctx[ret'.c].nodeCache, x) /\ Has(ctx'[ret'.c].nodeCache, x)
                   /\ ctx'[ret'.c].nodeCache[x] = ctx[ret'.c].nodeCache[x]
        /\ \A n \in AllNodes \ {ret'.k} : dom[n].parent # NullNode => dom'[n] = dom[n]
        /\ dom'[ret'.k] = [dom[ret'.k] EXCEPT !.id = ret'.id]]_vars

\* A setID has given the root element of a mounted root, which was cached
\* under its root identifier, the identifier of a child.
C21_Witness ==
  /\ ret.op = "setID" /\ calls = 3
  /\ ret.id = childID(getReactRootIDString(0), 0)
  /\ dom[ret.k].tag \in Types
  /\ dom[ret.k].id = ret.id
  /\ ctx[ret.c].nodeCache = Put(EmptyMap, ret.id, ret.k)
  /\ \E i \in Insts : Bound1(ctx, insts, i) /\ insts[i].ctx = ret.c

\* The node at which findComponentRoot(c, ancestorNode, targetID) starts:
\* the deepest cached ancestor that findDeepestCachedAncestor returns, the
\* ancestorNode when it returns none.
SearchStart(c, ancestorNode, targetID) ==
  Let(findDeepestCachedAncestor(World, c, targetID), LAMBDA d :
    IF d.err = NoErr /\ d.val # NullNode THEN d.val ELSE ancestorNode)

\* The nodes strictly between start and n.
Between(start, n) ==
  {m \in Descendants(dom, start) : m # n /\ containsNode(dom, m, n)}

\* n carries targetID below start, and every node on the path to it carries
\* no identifier or an ancestor prefix of targetID.
Findable(start, n, targetID) ==
  /\ n \in Descendants(dom, start)
  /\ internalGetID(World, n) = targetID
  /\ \A m \in Between(start, n) :
        \/ internalGetID(World, m) = NullID
        \/ isAncestorIDOf(internalGetID(World, m), targetID)

\* C22 as stated: findComponentRoot returns the node carrying targetID
\* whenever one lies below the search start behind nodes that carry no
\* identifier or an ancestor prefix of targetID.
C22_FindsEveryFindableNode ==
  [][(/\ ret'.op = "findComponentRoot" /\ calls' = calls + 1
      /\ \E n \in AllNodes : Findable(SearchStart(ret'.c, ret'.val, ret'.id), n, ret'.id))
     => /\ ret'.err = NoErr
        /\ internalGetID([dom |-> dom'], ret'.k) = ret'.id]_vars

\* Nothing misleads a search for targetID below start in context c: every
\* cache entry holds a node that carries its identifier, no two nodes
\* carry the same identifier, and every node below start that carries a
\* strict ancestor prefix of targetID has a node of `found` below it.
Undisturbed(c, start, targetID, found) ==
  /\ \A id \in DOMAIN ctx[c].nodeCache :
        internalGetID(World, ctx[c].nodeCache[id]) = id
  /\ \A m, n \in AllNodes :
        (m # n /\ internalGetID(World, m) # NullID)
          => internalGetID(World, m) # internalGetID(World, n)
  /\ \A m \in Descendants(dom, start) :
        (/\ internalGetID(World, m) # NullID
         /\ internalGetID(World, m) # targetID
         /\ isAncestorIDOf(internalGetID(World, m), targetID))
          => \E n \in found : m \in Between(start, n)

\* C22: a node that findComponentRoot returns carries targetID and lies
\* below the search start behind nodes that carry no identifier or an
\* ancestor prefix of targetID; when there is no such node the call fails;
\* the failures are ComponentNotFound and the two failures of getID and
\* isValid; and when nothing misleads the search (no cache entry for a node
\* with another identifier, no identifier carried twice, no node with an
\* ancestor prefix of targetID off the path), it returns the node if there
\* is one and fails with ComponentNotFound if there is none.
C22_FindComponentRoot ==
  [][(ret'.op = "findComponentRoot" /\ calls' = calls + 1)
     => \E start \in {SearchStart(ret'.c, ret'.val, ret'.id)} :
        \E found \in {{n \in Descendants(dom, start) : Findable(start, n, ret'.id)}} :
          /\ ret'.err \in {NoErr, "ComponentNotFound", "IdentifierCollision",
                           "UnexpectedExternalMutation"}
          /\ ret'.err = NoErr => ret'.k \in found
          /\ found = {} => ret'.err # NoErr
          /\ Undisturbed(ret'.c, start, ret'.id, found)
               => IF found = {} THEN ret'.err = "ComponentNotFound"
                  ELSE ret'.err = NoErr
          /\ \A n \in AllNodes : dom'[n] = dom[n]]_vars

\* A findComponentRoot has found the node of a child identifier below a
\* node without identifier, which lies below the root element.
C22_Witness ==
  /\ ret.op = "findComponentRoot" /\ ret.err = NoErr
  /\ ret.id = childID(getReactRootIDString(0), 0)
  /\ ret.k \in SearchNodes
  /\ dom[ret.k].parent \in SearchNodes
  /\ dom[ret.k].id = ret.id
  /\ dom[dom[ret.k].parent].id = NullID
  /\ dom[dom[dom[ret.k].parent].parent].id = getReactRootIDString(0)
  /\ Get(ctx[ret.c].nodeCache, ret.id) = ret.k
\* The identifier prefixes of targetID from the root identifier down to
\* targetID itself.
RECURSIVE PrefixesFrom(_, _)
PrefixesFrom(id, targetID) ==
  IF id = targetID THEN {id}
  ELSE {id} \cup PrefixesFrom(getNextDescendantID(id, targetID), targetID)

\* The cache of context c holds for id a node that carries id and lies in
\* the container registered for the root of id.
ValidEntry(c, id) ==
  /\ Has(ctx[c].nodeCache, id)
  /\ internalGetID(World, ctx[c].nodeCache[id]) = id
  /\ isValid(World, c, ctx[c].nodeCache[id], id).val = TRUE

\* C23: a findDeepestCachedAncestor that returns gives the node cached for
\* the deepest prefix of targetID whose cache entry is valid, and null when
\* no prefix has a valid entry.
C23_ReturnsDeepestValidPrefix ==
  [][(ret'.op = "findDeepestCachedAncestor" /\ calls' = calls + 1 /\ ret'.err = NoErr)
     => \E valid \in {{id \in PrefixesFrom(getNextDescendantID(NullID, ret'.id), ret'.id) :
                          ValidEntry(ret'.c, id)}} :
          IF valid = {} THEN ret'.k = NullNode
          ELSE \E id \in valid :
                 /\ \A other \in valid : Len(other) <= Len(id)
                 /\ ret'.k = ctx[ret'.c].nodeCache[id]]_vars
\* The shouldReuseMarkup arguments of the _renderNewRootComponent calls
\* among the events es.
ReuseRequests(es) == {es[j].arg : j \in {i \in 1 .. Len(es) : es[i].ev = "renderNew"}}

\* C24: a render that mounts passes shouldReuseMarkup = true exactly when
\* the context had no instance registered for the container and the
\* container's root element carries an identifier that starts with the
\* separator; a render that first unmounts an incompatible instance passes
\* false.
C24_ReuseRequestedIff ==
  [][(ret'.op = "render" /\ calls' = calls + 1 /\ ReuseRequests(ev') # {})
     => ReuseRequests(ev') =
          {IF /\ PrevComponent(ret'.c, ret'.k) = NoInst
              /\ RootIDOf(dom, ret'.k) # NullID
              /\ charAt(RootIDOf(dom, ret'.k), 0) = SEPARATOR
           THEN 1 ELSE 0}]_vars

\* A render has mounted with markup reuse requested: the document held
\* server markup and the context had no instance for it.
C24_Witness ==
  /\ ret.op = "render" /\ ret.path = "mount" /\ ret.k = DocNode
  /\ ReuseRequests(ev) = {1}

\* A render has unmounted an incompatible instance from the document, whose
\* root element keeps its identifier, and has asked for a mount without
\* markup reuse.
C24_RemountReached ==
  /\ ret.op = "render" /\ ret.k = DocNode
  /\ ret.err = "DocumentWithoutServerRendering"
  /\ ReuseRequests(ev) = {0}
  /\ RootIDOf(dom, DocNode) # NullID
\* The markup a mount of element e generates for the container k whose
\* root element carries an identifier: a new instance has state 0, and
\* registerContainer takes the root identifier from the root element.
FreshMarkup(e, k) == Markup(e, 0, RootIDOf(dom, k))

\* The checksum attribute of the root element of container k equals the
\* checksum of the markup that mounting e generates.
ChecksumMatches(e, k) ==
  /\ getReactRootElementInContainer(dom, k) # NullNode
  /\ dom[getReactRootElementInContainer(dom, k)].sum = adler32(FreshMarkup(e, k))

\* C25: a render that requests markup reuse for a container whose root
\* element's checksum matches the generated markup changes no container and
\* no node that a container holds, and creates no node.
C25_MatchingMarkupIsKept ==
  [][(/\ ret'.op = "render" /\ calls' = calls + 1
      /\ ReuseRequests(ev') = {1}
      /\ ChecksumMatches(ret'.e, ret'.k))
     => /\ \A n \in AllNodes :
              (n \in Containers \/ dom[n].parent # NullNode) => dom'[n] = dom[n]
        /\ \A j \in 1 .. Len(ev') : ev'[j].ev # "create"
        /\ ret'.err \in {NoErr, "UserError"}]_vars

\* A render has mounted into the element container by reusing the server
\* markup it held: the root element with its checksum is still there.
C25_Witness ==
  /\ ret.op = "render" /\ ret.path = "mount" /\ ret.err = NoErr
  /\ ret.k = FirstContainer
  /\ ReuseRequests(ev) = {1}
  /\ dom[FirstContainer].kids = <<PriorNode>>
  /\ dom[PriorNode].sum = adler32(ServerMarkup(ret.e))
  /\ insts[ret.val].mounted
\* The content of container k in the document d is exactly what the markup
\* m parses to: one root element and its children, no checksum attribute.
ContentIs(d, k, m) ==
  /\ Len(d[k].kids) = 1
  /\ \E r \in {d[k].kids[1]} :
       /\ d[r].parent = k /\ d[r].nodeType = ELEMENT_NODE_TYPE
       /\ d[r].id = m.id /\ d[r].tag = m.tag /\ d[r].text = m.text
       /\ d[r].sum = NoSum
       /\ Len(d[r].kids) = Len(m.kids)
       /\ \A j \in 1 .. Len(m.kids) :
            /\ d[d[r].kids[j]].id = m.kids[j]
            /\ d[d[r].kids[j]].parent = r
            /\ d[d[r].kids[j]].kids = << >>

\* C26: a render that mounts into an element container without reusing
\* what it holds (reuse not requested, or the checksum differs) leaves the
\* container with exactly the markup generated for the new instance as
\* content, parsed into nodes of the container's document, whether the
\* container was empty or not.
C26_FreshMarkupReplacesContent ==
  [][(/\ ret'.op = "render" /\ calls' = calls + 1
      /\ ret'.err = NoErr /\ ret'.path = "mount"
      /\ dom[ret'.k].nodeType = ELEMENT_NODE_TYPE
      /\ ~(ReuseRequests(ev') = {1} /\ ChecksumMatches(ret'.e, ret'.k)))
     => /\ ContentIs(dom', ret'.k, Markup(ret'.e, 0, insts'[ret'.val].rootID))
        /\ insts'[ret'.val].rootID # NullID
        /\ \E j \in 1 .. Len(ev') : ev'[j] = [ev |-> "create", arg |-> DocNode]]_vars

\* A render has mounted into the element container that held server markup
\* with another checksum: reuse was requested, and new nodes were created.
C26_Witness ==
  /\ ret.op = "render" /\ ret.path = "mount" /\ ret.err = NoErr
  /\ ret.k = FirstContainer /\ ~ret.empty
  /\ ReuseRequests(ev) = {1}
  /\ \E j \in 1 .. Len(ev) : ev[j].ev = "create"
  /\ ContentIs(dom, FirstContainer, Markup(ret.e, 0, getReactRootIDString(0)))
\* C28: a render that requests markup reuse over a root element whose
\* checksum differs from that of the generated markup leaves the checksum
\* attribute of that root element as it was, as long as the element is in
\* the container.
C28_ChecksumAttributeRestored ==
  [][(/\ ret'.op = "render" /\ calls' = calls + 1
      /\ ReuseRequests(ev') = {1}
      /\ ~ChecksumMatches(ret'.e, ret'.k))
     => \E r \in {getReactRootElementInContainer(dom, ret'.k)} :
          dom'[r].parent = dom[r].parent => dom'[r].sum = dom[r].sum]_vars
\* A render of context c has asked for a mount into the document that
\* cannot reuse what the document holds.
DocumentMountWithoutReuse ==
  /\ ret'.op = "render" /\ calls' = calls + 1 /\ ret'.k = DocNode
  /\ ReuseRequests(ev') # {}
  /\ ret'.err # "UserError"
  /\ ~(ReuseRequests(ev') = {1} /\ ChecksumMatches(ret'.e, DocNode))

\* C27: a mount into the document that cannot reuse its markup fails, with
\* DocumentRootMismatch when reuse was requested and the checksum differs
\* and with DocumentWithoutServerRendering when reuse was not requested, and
\* the document and every node in it are as before the call.
C27_DocumentContentIsKept ==
  [][DocumentMountWithoutReuse
     => /\ ret'.err = (IF ReuseRequests(ev') = {1} THEN "DocumentRootMismatch"
                       ELSE "DocumentWithoutServerRendering")
        /\ \A n \in {DocNode} \cup Descendants(dom, DocNode) : dom'[n] = dom[n]]_vars
\* C29: a render that finds no previous instance for the container and
\* fails while it mounts the new root leaves instancesByReactRootID and
\* containersByReactRootID of the context as they were before the call.
C29_FailedMountRegistersNothing ==
  [][(/\ ret'.op = "render" /\ calls' = calls + 1
      /\ ret'.err # NoErr
      /\ ReuseRequests(ev') # {}
      /\ PrevComponent(ret'.c, ret'.k) = NoInst)
     => /\ ctx'[ret'.c].instancesByReactRootID = ctx[ret'.c].instancesByReactRootID
        /\ ctx'[ret'.c].containersByReactRootID = ctx[ret'.c].containersByReactRootID]_vars
\* C30: in every context, every root identifier with an entry in
\* instancesByReactRootID has an entry in containersByReactRootID.
C30_InstancesHaveContainers ==
  \A c \in Contexts :
    DOMAIN ctx[c].instancesByReactRootID \subseteq DOMAIN ctx[c].containersByReactRootID

\* A render has mounted an instance in a context that also holds a
\* container entry from a registerContainer call, for which it has no
\* instance.
C30_Witness ==
  /\ ret.op = "render" /\ ret.err = NoErr /\ ret.path = "mount"
  /\ DOMAIN ctx[ret.c].instancesByReactRootID # {}
  /\ \E id \in DOMAIN ctx[ret.c].containersByReactRootID :
        id \notin DOMAIN ctx[ret.c].instancesByReactRootID
\* C31: in every context, every nodeCache entry maps an identifier to a
\* node whose identifier attribute equals that identifier.
C31_CacheEntriesCarryTheirID ==
  \A c \in Contexts : \A id \in DOMAIN ctx[c].nodeCache :
    internalGetID(World, ctx[c].nodeCache[id]) = id

\* Every entry of the nodeCache of context c in the contexts x maps its
\* identifier to a node that carries it in the documents d.
CacheConsistent(x, d, c) ==
  \A id \in DOMAIN x[c].nodeCache : internalGetID([dom |-> d], x[c].nodeCache[id]) = id

\* C31, per context: no operation makes an entry of the calling context's
\* nodeCache point to a node with another identifier; an entry of a context
\* stops matching its node only when a setID of another context relabels a
\* node that the context has cached.
C31_OnlyAnotherContextsSetIDBreaks ==
  [][\A c \in Contexts :
       (CacheConsistent(ctx, dom, c) /\ ~CacheConsistent(ctx', dom', c))
         => /\ ret'.op = "setID" /\ calls' = calls + 1
            /\ ret'.c # c
            /\ \E id \in DOMAIN ctx[c].nodeCache :
                  ctx[c].nodeCache[id] = ret'.k /\ id # ret'.id]_vars

\* A setID has relabelled a node that its context had cached: the context
\* holds the node under the new identifier, next to another entry, and
\* every entry of every context matches its node.
C31_Witness ==
  /\ ret.op = "setID"
  /\ Get(ctx[ret.c].nodeCache, ret.id) = ret.k
  /\ Cardinality(DOMAIN ctx[ret.c].nodeCache) >= 2
  /\ DOMAIN ctx[ret.c].instancesByReactRootID # {}
  /\ \A c \in Contexts : CacheConsistent(ctx, dom, c)

\* An instance that an earlier render mounted in container k, for an
\* element that nextElement is update-compatible with, and whose root
\* element is still the root element of k and shows that element.
MountedBefore(k, nextElement) ==
  {i \in Insts :
     /\ insts[i].used /\ insts[i].mounted
     /\ insts[i].rootID # NullID /\ insts[i].rootID = RootIDOf(dom, k)
     /\ Get(ctx[insts[i].ctx].containersByReactRootID, insts[i].rootID) = k
     /\ dom[getReactRootElementInContainer(dom, k)].tag = insts[i].element.type
     /\ dom[getReactRootElementInContainer(dom, k)].text.p = insts[i].element.props
     /\ shouldUpdateReactComponent(insts[i].element, nextElement)}

\* C32 as stated: a render without context into a container in which an
\* earlier render without context mounted a compatible element does not
\* take the update path, and mounts a new instance in a new context.
C32_SecondRenderMountsAnew ==
  [][(/\ ret'.op = "render" /\ calls' = calls + 1
      /\ MountedBefore(ret'.k, ret'.e) # {})
     => /\ ret'.path = "mount" /\ ret'.err = NoErr
        /\ ret'.val \notin MountedBefore(ret'.k, ret'.e)
        /\ \A i \in MountedBefore(ret'.k, ret'.e) : insts[i].ctx # ret'.c]_vars

\* C32: a render without context into a container in which an earlier
\* render mounted a compatible element runs in a context of its own, does
\* not take the update path and leaves the earlier instance and its context
\* as they were; it mounts a new instance, unless the mount fails the way a
\* first mount does: DocumentRootMismatch for a document whose markup
\* differs from that of the new element.
C32_SecondRenderNeverUpdates ==
  [][(/\ ret'.op = "render" /\ calls' = calls + 1
      /\ MountedBefore(ret'.k, ret'.e) # {})
     => /\ Unconstructed(ret'.c)
        /\ ret'.path # "update"
        /\ ret'.err \in {NoErr, "DocumentRootMismatch"}
        /\ ret'.err = NoErr
             => /\ ret'.path = "mount"
                /\ ~insts[ret'.val].used
                /\ insts'[ret'.val].ctx = ret'.c
                /\ ctx'[ret'.c].instancesByReactRootID[insts'[ret'.val].rootID] = ret'.val
        /\ ret'.err = "DocumentRootMismatch"
             => ret'.k = DocNode /\ ~ChecksumMatches(ret'.e, DocNode)
        /\ \A i \in MountedBefore(ret'.k, ret'.e) :
             /\ insts[i].ctx # ret'.c
             /\ insts'[i] = insts[i]
             /\ ctx'[insts[i].ctx] = ctx[insts[i].ctx]]_vars

\* A second render without context has mounted a new instance of the same
\* type into the element container that held the first one's markup; the
\* first instance is still registered in its own context.
C32_Witness ==
  /\ ret.op = "render" /\ ret.path = "mount" /\ ret.err = NoErr
  /\ ret.k = FirstContainer /\ ~ret.empty
  /\ \E i \in Insts \ {ret.val} :
        /\ insts[i].used /\ insts[i].ctx # ret.c
        /\ insts[i].element.type = ret.e.type
        /\ insts[i].rootID = insts[ret.val].rootID
        /\ Get(ctx[insts[i].ctx].instancesByReactRootID, insts[i].rootID) = i
        /\ Get(ctx[ret.c].instancesByReactRootID, insts[i].rootID) = ret.val
====
